---------------------------- MODULE Spec2Model ----------------------------
(***************************************************************************)
(* Model of the real-time audio bridge of voip-client-python.              *)
(*                                                                         *)
(*   segmented pipeline : WhisperAssistantBridge (whisper_assistant.py)    *)
(*                        and AiBotCall (app_ai_chatbot_call.py)           *)
(*   streaming pipeline : OpenAIRealtimeBridge (openai_realtime.py)        *)
(*                        and AiRealtimeCall (app_ai_realtime_call.py)     *)
(*                                                                         *)
(* Variables prefixed seg_ belong to the segmented bridge, rt_ to the      *)
(* streaming bridge, io_ to the call's I/O thread and md_ to the media     *)
(* (main) thread.  Variables prefixed h_ are history variables: they       *)
(* record what happened and are never read by the modelled code.           *)
(***************************************************************************)
EXTENDS Integers, Sequences, FiniteSets, TLC

VARIABLES
    \* ---- WhisperAssistantBridge ----
    seg_input_q,            \* _input_q   : Queue(maxsize=200)
    seg_output_q,           \* _output_q  : Queue(maxsize=500)
    seg_audio_buffer,       \* _audio_buffer (sequence of buffered chunks)
    seg_silence_frames,     \* _silence_frames (accumulated trailing silence, ms)
    seg_speech_detected,    \* _speech_detected
    seg_processing,         \* _processing
    seg_messages,           \* _messages
    seg_stop_event,         \* _stop_event
    seg_silence_duration_ms,\* _silence_duration_ms (constructor argument)
    seg_sample_rate,        \* _sample_rate
    seg_pc,                 \* where the worker coroutine _main stands
    seg_tts,                \* chunks of the synthesized reply still to be offered
    h_sent,                 \* number of send_pcm calls made so far
    h_vad_in,               \* every chunk _process_vad has been given, in order
    h_log,                  \* one record per segment-ready signal
    h_cur,                  \* what was done for the last segment signalled
    h_last,                 \* what the last step offered to a queue of a
                            \* bridge driven directly
    \* ---- the call (AiRealtimeCall or AiBotCall) and its threads ----
    pipeline,               \* "bridge_seg", "bridge_rt": a bridge alone;
                            \* "rt": AiRealtimeCall; "seg": AiBotCall
    rt,                     \* OpenAIRealtimeBridge: its fields
    call,                   \* the call object: _io_stop, _aud_med, ...
    pending_responses,      \* _pending_responses : Queue() of (pcm, index)
    io,                     \* _audio_io_loop: its position and its locals
    md,                     \* main (media) thread: run_call's loop
    h_events,               \* number of provider events received in the call
    h_enq,                  \* every index put on _pending_responses, in order
    h_deq,                  \* every item taken from _pending_responses, in order
    h_play                  \* every attach / detach of a response player

seg_vars == <<seg_input_q, seg_output_q, seg_audio_buffer, seg_silence_frames,
              seg_speech_detected, seg_processing, seg_messages, seg_stop_event,
              seg_silence_duration_ms, seg_sample_rate, seg_pc, seg_tts,
              h_sent, h_vad_in, h_log, h_cur>>

call_vars == <<pipeline, rt, call, pending_responses, io, md,
               h_events, h_enq, h_deq, h_play>>

vars == <<seg_vars, call_vars, h_last>>

-----------------------------------------------------------------------------
(* Bounds of the model *)

\* Queue capacities, scaled down: the code has maxsize=200 / 500
\* (whisper_assistant.py:86-87).
SegInputQMax == 2
SegOutputQMax == 2
\* Total number of send_pcm calls in one behaviour.
MaxFrames == 4
\* Duration of the shorter of the two chunk sizes handed to send_pcm, in ms
\* (the frame reader hands 20 ms frames; the bridge accepts any length).
FrameMs == 100

-----------------------------------------------------------------------------
(* Generic helpers *)

None == "None"

Last(s) == s[Len(s)]

RECURSIVE SumMs(_)
SumMs(s) == IF s = <<>> THEN 0 ELSE s[1].ms + SumMs(Tail(s))

\* queue.Queue.put_nowait on a queue of capacity maxsize (0: unbounded):
\* the new queue, or the same queue when queue.Full is raised.
QueueFull(q, maxsize) == maxsize > 0 /\ Len(q) >= maxsize
PutNowait(q, maxsize, x) == IF QueueFull(q, maxsize) THEN q ELSE Append(q, x)


-----------------------------------------------------------------------------
(* PCM16 mono byte strings: sequences of bytes 0..255, little-endian.       *)

\* struct.unpack("<{n}h", pcm): the n = Len(pcm) \div 2 signed samples.
SampleAt(pcm, k) ==
    LET u == pcm[2 * k - 1] + 256 * pcm[2 * k]
    IN  IF u >= 32768 THEN u - 65536 ELSE u

Unpack(pcm) == [k \in 1..(Len(pcm) \div 2) |-> SampleAt(pcm, k)]

\* struct.pack("<{n}h", *samples)
PackByte(samples, j) ==
    LET v == samples[(j + 1) \div 2]
        u == IF v < 0 THEN v + 65536 ELSE v
    IN  IF j % 2 = 1 THEN u % 256 ELSE u \div 256

Pack(samples) == [j \in 1..(2 * Len(samples)) |-> PackByte(samples, j)]

\* int(x) of Python for the rational num/den, den > 0: truncation toward 0.
TruncDiv(num, den) == IF num >= 0 THEN num \div den ELSE -((-num) \div den)

\* int(round(x)) of Python 3 for the rational num/den, den > 0:
\* round half to even.
RoundHalfEven(num, den) ==
    LET fl == IF num >= 0 THEN num \div den ELSE -(((-num) + den - 1) \div den)
        r2 == 2 * (num - fl * den)
    IN  IF r2 < den THEN fl
        ELSE IF r2 > den THEN fl + 1
        ELSE IF fl % 2 = 0 THEN fl ELSE fl + 1

Clip16(v) == IF v < -32768 THEN -32768 ELSE IF v > 32767 THEN 32767 ELSE v

\* _resample_pcm returning what it was given whatever the rates.
ResamplePcm_Skipped(pcm_data, src_rate, dst_rate) == pcm_data

\* WhisperAssistantBridge._resample_pcm.  ratio = dst_rate / src_rate, so the
\* source position of output sample i (from 0) is i * src_rate / dst_rate.
SegResampleSample(samples, i, src_rate, dst_rate) ==
    LET n    == Len(samples)
        pos  == i * src_rate
        idx  == pos \div dst_rate
        rem  == pos % dst_rate
        idx0 == IF idx >= n - 1 THEN n - 1 ELSE idx
        idx1 == IF idx >= n - 1 THEN n - 1 ELSE idx + 1
        fr   == IF idx >= n - 1 THEN 0 ELSE rem
    IN  Clip16(TruncDiv(samples[idx0 + 1] * (dst_rate - fr)
                        + samples[idx1 + 1] * fr, dst_rate))

SegResamplePcm(pcm_data, src_rate, dst_rate) ==
    IF src_rate = dst_rate THEN pcm_data
    ELSE IF Len(pcm_data) < 2 THEN pcm_data
    ELSE IF Len(pcm_data) % 2 = 1 THEN pcm_data       \* struct.error
    ELSE LET samples == Unpack(pcm_data)
             out_len == (Len(samples) * dst_rate) \div src_rate
         IN  IF out_len = 0 THEN pcm_data
             ELSE Pack([k \in 1..out_len |->
                          SegResampleSample(samples, k - 1, src_rate, dst_rate)])

-----------------------------------------------------------------------------
(* WhisperAssistantBridge: inputs *)

\* A chunk handed to send_pcm: ms milliseconds of PCM16 whose samples all have
\* magnitude amp.  ms = 0 is the empty byte string.
\* (327 is just below and 328 just above -40 dBFS.)
FrameAmps == {327, 328}
Frames == [amp : FrameAmps, ms : {FrameMs, 2 * FrameMs}]
EmptyFrame == [amp |-> 0, ms |-> 0]

\* len(chunk) at the bridge's sample rate.
FrameBytes(chunk, rate) == (chunk.ms * rate * 2) \div 1000

RECURSIVE BufferBytes(_, _)
BufferBytes(buf, rate) ==
    IF buf = <<>> THEN 0 ELSE FrameBytes(buf[1], rate) + BufferBytes(Tail(buf), rate)

\* Texts are sequences of characters; " " is whitespace.
ProviderTexts == {<<>>, <<" ">>, <<"h">>, <<" ", "h", " ">>}

RECURSIVE LStrip(_)
LStrip(t) == IF t # <<>> /\ t[1] = " " THEN LStrip(Tail(t)) ELSE t

RECURSIVE RStrip(_)
RStrip(t) == IF t # <<>> /\ Last(t) = " " THEN RStrip(SubSeq(t, 1, Len(t) - 1)) ELSE t

\* str.strip()
Strip(t) == RStrip(LStrip(t))

\* What a text request can do: raise, return None, or return a text.
TextOutcomes ==
    {[kind |-> "raise", value |-> <<>>], [kind |-> "none", value |-> <<>>]}
        \cup {[kind |-> "text", value |-> v] : v \in ProviderTexts}

\* What the speech request can do: raise, or return PCM16 at 24 kHz.
TtsPcms == {<<>>, <<10, 0, 20, 0, 30, 0>>, <<10, 0, 20, 0, 30, 0, 7>>,
            <<1, 0, 2, 0, 3, 0, 4, 0, 5, 0, 6, 0>>}
TtsOutcomes ==
    {[kind |-> "raise", value |-> <<>>]}
        \cup {[kind |-> "pcm", value |-> p] : p \in TtsPcms}

\* Speech long enough to be cut into several 20 ms chunks: n bytes of PCM16
\* at 24 kHz.  At 8000 Hz a chunk is 320 bytes, which is 960 bytes of the
\* 24 kHz signal; an odd length is returned by _resample_pcm as it came.
LongPcm(n) == [j \in 1..n |-> (j * 37) % 256]
LongPcmLens == {2, 963, 966, 1920}
LongTtsOutcomes ==
    {[kind |-> "raise", value |-> <<>>]}
        \cup {[kind |-> "pcm", value |-> LongPcm(n)] : n \in LongPcmLens}

-----------------------------------------------------------------------------
(* WhisperAssistantBridge: pure helpers *)

\* _compute_rms: 0.0 for fewer than 2 bytes, else sqrt(mean of squares),
\* which is amp for a chunk whose samples all have magnitude amp.
ComputeRms(chunk, rate) == IF FrameBytes(chunk, rate) < 2 THEN 0 ELSE chunk.amp

\* _is_silence with the constructor's silence_threshold_db = -40.0:
\* 20*log10(rms/32768) < -40  <=>  rms/32768 < 1/100.
IsSilence(rms) == rms <= 0 \/ rms * 100 < 32768

\* _process_vad counting the silence after speech without buffering it.
ProcessVad_DropsSilence(st, chunk, rate, silence_duration_ms) ==
    LET is_silent == IsSilence(ComputeRms(chunk, rate))
        frame_duration_ms == ((FrameBytes(chunk, rate) \div 2) * 1000) \div rate
    IN  IF ~is_silent
        THEN [speech_detected |-> TRUE, silence_frames |-> 0,
              audio_buffer |-> Append(st.audio_buffer, chunk), ret |-> FALSE]
        ELSE IF st.speech_detected
        THEN [speech_detected |-> TRUE,
              silence_frames |-> st.silence_frames + frame_duration_ms,
              audio_buffer |-> st.audio_buffer,
              ret |-> st.silence_frames + frame_duration_ms >= silence_duration_ms]
        ELSE [speech_detected |-> st.speech_detected,
              silence_frames |-> st.silence_frames,
              audio_buffer |-> st.audio_buffer, ret |-> FALSE]

\* _process_vad without the reset of the silence accumulator on speech.
ProcessVad_KeepsSilence(st, chunk, rate, silence_duration_ms) ==
    LET is_silent == IsSilence(ComputeRms(chunk, rate))
        frame_duration_ms == ((FrameBytes(chunk, rate) \div 2) * 1000) \div rate
    IN  IF ~is_silent
        THEN [speech_detected |-> TRUE, silence_frames |-> st.silence_frames,
              audio_buffer |-> Append(st.audio_buffer, chunk), ret |-> FALSE]
        ELSE IF st.speech_detected
        THEN [speech_detected |-> TRUE,
              silence_frames |-> st.silence_frames + frame_duration_ms,
              audio_buffer |-> Append(st.audio_buffer, chunk),
              ret |-> st.silence_frames + frame_duration_ms >= silence_duration_ms]
        ELSE [speech_detected |-> st.speech_detected,
              silence_frames |-> st.silence_frames,
              audio_buffer |-> st.audio_buffer, ret |-> FALSE]

\* _process_vad on the VAD state st = [speech_detected, silence_frames,
\* audio_buffer]: the new VAD state and the returned flag.
ProcessVad(st, chunk, rate, silence_duration_ms) ==
    LET is_silent == IsSilence(ComputeRms(chunk, rate))
        \* (len(chunk) / 2) / sample_rate * 1000
        frame_duration_ms == ((FrameBytes(chunk, rate) \div 2) * 1000) \div rate
    IN  IF ~is_silent
        THEN [speech_detected |-> TRUE, silence_frames |-> 0,
              audio_buffer |-> Append(st.audio_buffer, chunk), ret |-> FALSE]
        ELSE IF st.speech_detected
        THEN [speech_detected |-> TRUE,
              silence_frames |-> st.silence_frames + frame_duration_ms,
              audio_buffer |-> Append(st.audio_buffer, chunk),
              ret |-> st.silence_frames + frame_duration_ms >= silence_duration_ms]
        ELSE [speech_detected |-> st.speech_detected,
              silence_frames |-> st.silence_frames,
              audio_buffer |-> st.audio_buffer, ret |-> FALSE]

\* _main, line 220: len(audio_data) > self._sample_rate * 2 * 0.3
LongEnough(audio_data, rate) == BufferBytes(audio_data, rate) * 10 > rate * 2 * 3

\* _transcribe: "" when the request raises or returns nothing, else the
\* stripped text.
Transcribe(outcome) ==
    IF outcome.kind = "raise" THEN <<>>
    ELSE IF outcome.kind = "none" \/ outcome.value = <<>> THEN <<>>
    ELSE Strip(outcome.value)

\* _chat_completion: "" when the request raises or the content is empty,
\* else the stripped content.
ChatCompletion(outcome) ==
    IF outcome.kind = "raise" THEN <<>>
    ELSE IF outcome.kind = "none" \/ outcome.value = <<>> THEN <<>>
    ELSE Strip(outcome.value)

\* _text_to_speech, lines 404-409: the 20 ms chunks of the resampled PCM.
\* _text_to_speech cutting whole chunks only.
TtsChunks_WholeOnly(pcm_24k, rate) ==
    LET pcm_resampled == SegResamplePcm(pcm_24k, 24000, rate)
        chunk_size == (rate * 2) \div 50
        n == Len(pcm_resampled) \div chunk_size
    IN  [k \in 1..n |-> SubSeq(pcm_resampled, (k - 1) * chunk_size + 1,
                               k * chunk_size)]

TtsChunks(pcm_24k, rate) ==
    LET pcm_resampled == SegResamplePcm(pcm_24k, 24000, rate)
        chunk_size == (rate * 2) \div 50
        n == (Len(pcm_resampled) + chunk_size - 1) \div chunk_size
    IN  [k \in 1..n |->
           SubSeq(pcm_resampled, (k - 1) * chunk_size + 1,
                  IF k * chunk_size < Len(pcm_resampled)
                  THEN k * chunk_size ELSE Len(pcm_resampled))]

-----------------------------------------------------------------------------
(* WhisperAssistantBridge: state machine *)

SystemMessage == <<"s">>
\* --silence-duration values tried (the default is 1000).
SilenceDurations == {FrameMs, 2 * FrameMs}
\* Call clock rates tried (set_sample_rate; the default is 8000).
SegRates == {8000}

Turn(role, content) == [role |-> role, content |-> content]

\* h_last, kept for a bridge that is driven directly: NoSend unless the last
\* step was a send_pcm call or an audio delta of the provider; then the
\* operation, the data offered and the length of the queue when it was
\* offered.
NoSend == [op |-> "-"]
SendStep(op, q, data) == [op |-> op, qlen |-> Len(q), data |-> data]

\* One h_log record: segment-ready was signalled on chunk h_vad_in[at] and
\* audio was the buffer taken.
LogRecord(at, audio) == [at |-> at, audio |-> audio]

\* h_cur, for the last segment signalled: the conversation when it was
\* signalled (msgs0), the requests issued for it (calls), what each returned
\* (a sequence of length 0 until it has returned, then of length 1: the text
\* the provider returned, raised standing for a request that failed), the
\* PCM the speech request returned (pcm_24k), the number of chunks offered to
\* and accepted by the output queue, and each chunk offered with the length
\* of the output queue when it was offered (chunks); and whether a request of
\* the segment signalled before it had failed (after_failure).
CurRecord(msgs, calls, done) ==
    [msgs0 |-> msgs, calls |-> calls, stt |-> <<>>, chat |-> <<>>, tts |-> <<>>,
     pcm_24k |-> <<>>, offered |-> 0, enqueued |-> 0, chunks |-> <<>>,
     done |-> done, after_failure |-> FALSE]

\* A request of the segment h_cur record c is about raised.
SegmentFailed(c) ==
    /\ c.done
    /\ \/ c.stt # <<>> /\ c.stt[1].kind = "raise"
       \/ c.chat # <<>> /\ c.chat[1].kind = "raise"
       \/ c.tts = <<"raise">>

\* A text outcome as h_cur records it: what the request did, whether it
\* returned whitespace only, and the text without its surrounding whitespace.
Seen(outcome) ==
    [kind |-> outcome.kind,
     whitespace |-> outcome.value # <<>> /\ Strip(outcome.value) = <<>>,
     text |-> Strip(outcome.value)]

InitSeg ==
    /\ seg_input_q = <<>>
    /\ seg_output_q = <<>>
    /\ seg_audio_buffer = <<>>
    /\ seg_silence_frames = 0
    /\ seg_speech_detected = FALSE
    /\ seg_processing = FALSE
    /\ seg_messages = <<Turn("system", SystemMessage)>>
    /\ seg_stop_event = FALSE
    /\ seg_silence_duration_ms \in SilenceDurations
    /\ seg_sample_rate \in SegRates
    /\ seg_pc = "not_started"
    /\ seg_tts = <<>>
    /\ h_sent = 0
    /\ h_vad_in = <<>>
    /\ h_log = <<>>
    /\ h_cur = CurRecord(seg_messages, <<>>, TRUE)
    /\ h_last = NoSend

\* start(): no-op while the worker thread is alive.
SegStart ==
    /\ seg_pc \in {"not_started", "exited"}
    /\ seg_stop_event' = FALSE
    /\ seg_pc' = "loop"
    /\ h_last' = NoSend
    /\ UNCHANGED <<seg_input_q, seg_output_q, seg_audio_buffer, seg_silence_frames,
                   seg_speech_detected, seg_processing, seg_messages,
                   seg_silence_duration_ms, seg_sample_rate, seg_tts,
                   h_sent, h_vad_in, h_log, h_cur>>

\* stop(): sets the stop event (the bounded join changes no state).
SegStop ==
    /\ seg_pc # "not_started"
    /\ ~seg_stop_event
    /\ seg_stop_event' = TRUE
    /\ h_last' = NoSend
    /\ UNCHANGED <<seg_input_q, seg_output_q, seg_audio_buffer, seg_silence_frames,
                   seg_speech_detected, seg_processing, seg_messages,
                   seg_silence_duration_ms, seg_sample_rate, seg_pc, seg_tts,
                   h_sent, h_vad_in, h_log, h_cur>>

\* send_pcm(data): the new input queue.
SegSendPcmQ(q, data) ==
    IF data.ms = 0 THEN q ELSE PutNowait(q, SegInputQMax, data)

SegSendPcm(data) ==
    /\ h_sent < MaxFrames
    /\ h_sent' = h_sent + 1
    /\ seg_input_q' = SegSendPcmQ(seg_input_q, data)
    /\ h_last' = SendStep("seg_send_pcm", seg_input_q, data)
    /\ UNCHANGED <<seg_output_q, seg_audio_buffer, seg_silence_frames,
                   seg_speech_detected, seg_processing, seg_messages, seg_stop_event,
                   seg_silence_duration_ms, seg_sample_rate, seg_pc, seg_tts,
                   h_vad_in, h_log, h_cur>>

\* recv_pcm(timeout): the head of the output queue (None on timeout, which
\* changes nothing).
SegRecvPcm ==
    /\ seg_output_q # <<>>
    /\ seg_output_q' = Tail(seg_output_q)
    /\ h_last' = NoSend
    /\ UNCHANGED <<seg_input_q, seg_audio_buffer, seg_silence_frames,
                   seg_speech_detected, seg_processing, seg_messages, seg_stop_event,
                   seg_silence_duration_ms, seg_sample_rate, seg_pc, seg_tts,
                   h_sent, h_vad_in, h_log, h_cur>>

\* _main never looking at the stop event.
SegMainCheck_IgnoresStop ==
    /\ seg_pc = "loop"
    /\ seg_pc' = "get"
    /\ h_last' = NoSend
    /\ UNCHANGED <<seg_input_q, seg_output_q, seg_audio_buffer, seg_silence_frames,
                   seg_speech_detected, seg_processing, seg_messages, seg_stop_event,
                   seg_silence_duration_ms, seg_sample_rate, seg_tts,
                   h_sent, h_vad_in, h_log, h_cur>>

\* _main, line 199: while not self._stop_event.is_set()
SegMainCheck ==
    /\ seg_pc = "loop"
    /\ seg_pc' = IF seg_stop_event THEN "exited" ELSE "get"
    /\ h_last' = NoSend
    /\ UNCHANGED <<seg_input_q, seg_output_q, seg_audio_buffer, seg_silence_frames,
                   seg_speech_detected, seg_processing, seg_messages, seg_stop_event,
                   seg_silence_duration_ms, seg_sample_rate, seg_tts,
                   h_sent, h_vad_in, h_log, h_cur>>

\* The segment-ready branch without the reset of speech_detected.
SegMainSegment_StaysInSpeech(audio_data) ==
    /\ h_log' = Append(h_log, LogRecord(Len(h_vad_in) + 1, audio_data))
    /\ seg_audio_buffer' = <<>>
    /\ seg_speech_detected' = TRUE
    /\ seg_silence_frames' = 0
    /\ IF LongEnough(audio_data, seg_sample_rate)
       THEN /\ seg_processing' = TRUE
            /\ seg_pc' = "transcribe"
            /\ h_cur' = [CurRecord(seg_messages, <<"stt">>, FALSE)
                            EXCEPT !.after_failure = SegmentFailed(h_cur)]
       ELSE /\ seg_processing' = seg_processing
            /\ seg_pc' = "loop"
            /\ h_cur' = [CurRecord(seg_messages, <<>>, TRUE)
                            EXCEPT !.after_failure = SegmentFailed(h_cur)]

\* The segment-ready branch starting _process_speech without setting the
\* processing flag.
SegMainSegment_FlagNotSet(audio_data) ==
    /\ h_log' = Append(h_log, LogRecord(Len(h_vad_in) + 1, audio_data))
    /\ seg_audio_buffer' = <<>>
    /\ seg_speech_detected' = FALSE
    /\ seg_silence_frames' = 0
    /\ seg_processing' = seg_processing
    /\ IF LongEnough(audio_data, seg_sample_rate)
       THEN /\ seg_pc' = "transcribe"
            /\ h_cur' = [CurRecord(seg_messages, <<"stt">>, FALSE)
                            EXCEPT !.after_failure = SegmentFailed(h_cur)]
       ELSE /\ seg_pc' = "loop"
            /\ h_cur' = [CurRecord(seg_messages, <<>>, TRUE)
                            EXCEPT !.after_failure = SegmentFailed(h_cur)]

\* _main, lines 213-221, on segment-ready: take the buffer, reset the VAD and,
\* when the segment is long enough, start _process_speech, which issues the
\* transcription request.
SegMainSegment(audio_data) ==
    /\ h_log' = Append(h_log, LogRecord(Len(h_vad_in) + 1, audio_data))
    /\ seg_audio_buffer' = <<>>
    /\ seg_speech_detected' = FALSE
    /\ seg_silence_frames' = 0
    /\ IF LongEnough(audio_data, seg_sample_rate)
       THEN /\ seg_processing' = TRUE
            /\ seg_pc' = "transcribe"
            /\ h_cur' = [CurRecord(seg_messages, <<"stt">>, FALSE)
                            EXCEPT !.after_failure = SegmentFailed(h_cur)]
       ELSE /\ seg_processing' = seg_processing
            /\ seg_pc' = "loop"
            /\ h_cur' = [CurRecord(seg_messages, <<>>, TRUE)
                            EXCEPT !.after_failure = SegmentFailed(h_cur)]

\* _main, lines 201-221: take one chunk from the input queue and run the VAD.
SegMainGet ==
    /\ seg_pc = "get"
    /\ h_last' = NoSend
    /\ IF seg_input_q = <<>>
       THEN /\ seg_pc' = "loop"
            /\ UNCHANGED <<seg_input_q, seg_audio_buffer, seg_silence_frames,
                           seg_speech_detected, seg_processing, h_vad_in, h_log,
                           h_cur>>
       ELSE LET chunk == Head(seg_input_q)
                vad == ProcessVad([speech_detected |-> seg_speech_detected,
                                   silence_frames |-> seg_silence_frames,
                                   audio_buffer |-> seg_audio_buffer],
                                  chunk, seg_sample_rate, seg_silence_duration_ms)
            IN  /\ seg_input_q' = Tail(seg_input_q)
                /\ IF chunk.ms = 0
                   THEN /\ seg_pc' = "loop"
                        /\ UNCHANGED <<seg_audio_buffer, seg_silence_frames,
                                       seg_speech_detected, seg_processing,
                                       h_vad_in, h_log, h_cur>>
                   ELSE /\ h_vad_in' = Append(h_vad_in, chunk)
                        /\ IF vad.ret /\ ~seg_processing
                           THEN SegMainSegment(vad.audio_buffer)
                           ELSE /\ seg_audio_buffer' = vad.audio_buffer
                                /\ seg_speech_detected' = vad.speech_detected
                                /\ seg_silence_frames' = vad.silence_frames
                                /\ seg_pc' = "loop"
                                /\ UNCHANGED <<seg_processing, h_log, h_cur>>
    /\ UNCHANGED <<seg_output_q, seg_messages, seg_stop_event,
                   seg_silence_duration_ms, seg_sample_rate, seg_tts, h_sent>>

\* _process_speech adding the user turn before it looks at the transcript.
ProcessSpeechOnTranscript_AppendsFirst(msgs, transcript) ==
    IF transcript = <<>> \/ Strip(transcript) = <<>>
    THEN [messages |-> Append(msgs, Turn("user", transcript)), next |-> "return"]
    ELSE [messages |-> Append(msgs, Turn("user", transcript)), next |-> "chat"]

\* _process_speech not recording the assistant turn.
ProcessSpeechOnResponse_NoAssistantTurn(msgs, response) ==
    IF response = <<>>
    THEN [messages |-> msgs, next |-> "return"]
    ELSE [messages |-> msgs, next |-> "tts"]

\* _process_speech recording the assistant turn before it looks at the
\* response.
ProcessSpeechOnResponse_AppendsFirst(msgs, response) ==
    IF response = <<>>
    THEN [messages |-> Append(msgs, Turn("assistant", response)), next |-> "return"]
    ELSE [messages |-> Append(msgs, Turn("assistant", response)), next |-> "tts"]

\* _process_speech, lines 296-312: what follows the transcription.
ProcessSpeechOnTranscript(msgs, transcript) ==
    IF transcript = <<>> \/ Strip(transcript) = <<>>
    THEN [messages |-> msgs, next |-> "return"]
    ELSE [messages |-> Append(msgs, Turn("user", transcript)), next |-> "chat"]

\* _process_speech, lines 315-333: what follows the chat completion.
ProcessSpeechOnResponse(msgs, response) ==
    IF response = <<>>
    THEN [messages |-> msgs, next |-> "return"]
    ELSE [messages |-> Append(msgs, Turn("assistant", response)), next |-> "tts"]

\* _main leaving the processing flag set.
SegMainFinally_StaysProcessing ==
    /\ seg_processing' = TRUE
    /\ seg_pc' = "loop"

\* _main, lines 226-227, when _process_speech has returned or raised.
SegMainFinally ==
    /\ seg_processing' = FALSE
    /\ seg_pc' = "loop"

\* The transcription request returns or raises.
SegTranscribeReturn(outcome) ==
    /\ seg_pc = "transcribe"
    /\ LET r == ProcessSpeechOnTranscript(seg_messages, Transcribe(outcome))
       IN  /\ seg_messages' = r.messages
           /\ IF r.next = "return"
              THEN /\ SegMainFinally
                   /\ h_cur' = [h_cur EXCEPT !.stt = <<Seen(outcome)>>, !.done = TRUE]
              ELSE /\ seg_processing' = seg_processing
                   /\ seg_pc' = r.next
                   /\ h_cur' = [h_cur EXCEPT !.stt = <<Seen(outcome)>>,
                                             !.calls = Append(@, r.next)]
    /\ h_last' = NoSend
    /\ UNCHANGED <<seg_input_q, seg_output_q, seg_audio_buffer, seg_silence_frames,
                   seg_speech_detected, seg_stop_event, seg_silence_duration_ms,
                   seg_sample_rate, seg_tts, h_sent, h_vad_in, h_log>>

\* The chat completion request returns or raises.
SegChatReturn(outcome) ==
    /\ seg_pc = "chat"
    /\ LET r == ProcessSpeechOnResponse(seg_messages, ChatCompletion(outcome))
       IN  /\ seg_messages' = r.messages
           /\ IF r.next = "return"
              THEN /\ SegMainFinally
                   /\ h_cur' = [h_cur EXCEPT !.chat = <<Seen(outcome)>>, !.done = TRUE]
              ELSE /\ seg_processing' = seg_processing
                   /\ seg_pc' = r.next
                   /\ h_cur' = [h_cur EXCEPT !.chat = <<Seen(outcome)>>,
                                             !.calls = Append(@, r.next)]
    /\ h_last' = NoSend
    /\ UNCHANGED <<seg_input_q, seg_output_q, seg_audio_buffer, seg_silence_frames,
                   seg_speech_detected, seg_stop_event, seg_silence_duration_ms,
                   seg_sample_rate, seg_tts, h_sent, h_vad_in, h_log>>

\* The speech request returns or raises: _text_to_speech, lines 390-409.
SegTtsReturn(outcome) ==
    /\ seg_pc = "tts"
    /\ LET chunks == IF outcome.kind = "raise" THEN <<>>
                     ELSE TtsChunks(outcome.value, seg_sample_rate)
       IN  /\ seg_tts' = chunks
           /\ IF chunks = <<>>
              THEN /\ SegMainFinally
                   /\ h_cur' = [h_cur EXCEPT !.tts = <<outcome.kind>>,
                                             !.pcm_24k = outcome.value,
                                             !.done = TRUE]
              ELSE /\ seg_processing' = seg_processing
                   /\ seg_pc' = "enqueue"
                   /\ h_cur' = [h_cur EXCEPT !.tts = <<outcome.kind>>,
                                             !.pcm_24k = outcome.value]
    /\ h_last' = NoSend
    /\ UNCHANGED <<seg_input_q, seg_output_q, seg_audio_buffer, seg_silence_frames,
                   seg_speech_detected, seg_messages, seg_stop_event,
                   seg_silence_duration_ms, seg_sample_rate, h_sent, h_vad_in, h_log>>

\* _text_to_speech, lines 408-413: offer the next chunk to the output queue.
SegEnqueueChunk ==
    /\ seg_pc = "enqueue"
    /\ seg_output_q' = PutNowait(seg_output_q, SegOutputQMax, Head(seg_tts))
    /\ seg_tts' = Tail(seg_tts)
    /\ LET acc == IF QueueFull(seg_output_q, SegOutputQMax) THEN 0 ELSE 1
           fin == Tail(seg_tts) = <<>>
       IN  /\ h_cur' = [h_cur EXCEPT !.offered = @ + 1, !.enqueued = @ + acc,
                                     !.chunks = Append(@, [data |-> Head(seg_tts),
                                                           qlen |-> Len(seg_output_q)]),
                                     !.done = fin]
           /\ IF fin THEN SegMainFinally
                     ELSE UNCHANGED <<seg_processing, seg_pc>>
    /\ h_last' = NoSend
    /\ UNCHANGED <<seg_input_q, seg_audio_buffer, seg_silence_frames,
                   seg_speech_detected, seg_messages, seg_stop_event,
                   seg_silence_duration_ms, seg_sample_rate, h_sent, h_vad_in, h_log>>

-----------------------------------------------------------------------------
(* The call: bounds and inputs *)

\* Queue capacities of the streaming bridge, scaled down: the code has
\* maxsize=100 for both (openai_realtime.py:73-74).
RtInputQMax == 2
RtOutputQMax == 2
\* Provider events logged between two start() calls of a watched bridge.
MaxRecvLog == 3
\* Provider events received in one behaviour.
MaxEvents == 3
\* Frames the I/O thread slices from the capture stream in one behaviour.
CallMaxFrames == 4
\* Loop limits of AiRealtimeCall._audio_io_loop, scaled down.  In the code:
\* 5 empty polls end the drain (line 469), 50 main-loop iterations after the
\* stop signal (line 390), 100 polls (line 534) and 60 waits (line 549) in the
\* final flush, which ends after 5 empty polls once the response is done
\* (line 562), after iteration 20 and 10 empty polls once the bridge thread
\* has stopped (line 566), after iteration 30 without any audio (line 571),
\* and looks at the bridge thread every 10 iterations (line 575).
DrainEmptyBreak == 2
DrainAfterStopMax == 1
FlushPollMax == 2
FlushWaitMax == 3
FlushDoneEmpties == 1
FlushDeadAfter == 1
FlushDeadEmpties == 1
FlushNoAudioAfter == 2
FlushRefreshEvery == 1
\* The drain loop's own limit (line 458).
DrainIterationsMax == 50
\* The rate the provider works at (line 351: openai_sample_rate).
OpenAiSampleRate == 24000

\* Clock rates of the call stream tried (the fallback is 8000).
CallRates == {8000}

\* Frames sliced from the capture stream, held like the chunks above by level
\* and duration: resampling a frame between rates keeps both, and gives it
\* FrameBytes(frame, rate) bytes at the new rate.
CallFrames == {[amp |-> 328, ms |-> 2 * FrameMs], [amp |-> 327, ms |-> 2 * FrameMs]}

\* Payloads of the provider's audio deltas: PCM16 at 24 kHz, after base64
\* decoding.  <<>> is an empty payload.
DeltaPcms == {<<1, 0, 2, 0, 3, 0>>, <<>>}

\* A provider event as json.loads returns it.  "unparsable" is a message
\* json.loads rejects; a delta with valid = FALSE does not decode.
Event(type) == [type |-> type, valid |-> TRUE, delta |-> <<>>]
AudioDeltas ==
    {[type |-> "response.output_audio.delta", valid |-> TRUE, delta |-> p] :
        p \in DeltaPcms}
      \cup {[type |-> "response.output_audio.delta", valid |-> FALSE, delta |-> <<>>]}
ProviderEvents ==
    {Event(t) : t \in {"unparsable", "session.updated", "error",
                       "input_audio_buffer.speech_stopped", "response.created",
                       "response.done", "response.output_audio.done"}}
      \cup AudioDeltas
\* The events a call is given: audio, completions and errors.
CallProviderEvents ==
    {Event(t) : t \in {"error", "response.done", "response.output_audio.done"}}
      \cup AudioDeltas

\* What the speech and text requests return in a call.
CallTextOutcomes ==
    {[kind |-> "raise", value |-> <<>>], [kind |-> "text", value |-> <<"h">>]}
CallTtsOutcomes ==
    {[kind |-> "raise", value |-> <<>>],
     [kind |-> "pcm", value |-> <<1, 0, 2, 0, 3, 0, 4, 0, 5, 0, 6, 0>>]}

\* _resample_pcm of app_ai_realtime_call.py.
AppResampleSample(samples, i, src_rate, dst_rate) ==
    LET n    == Len(samples)
        pos  == i * src_rate
        idx  == pos \div dst_rate
        rem  == pos % dst_rate
        idx0 == IF idx >= n - 1 THEN n - 1 ELSE idx
        idx1 == IF idx >= n - 1 THEN n - 1 ELSE idx + 1
        fr   == IF idx >= n - 1 THEN 0 ELSE rem
        val0 == samples[idx0 + 1]
        val1 == samples[idx1 + 1]
    IN  RoundHalfEven(val0 * dst_rate + fr * (val1 - val0), dst_rate)

AppResamplePcm(pcm_data, src_rate, dst_rate) ==
    IF src_rate = dst_rate THEN pcm_data
    ELSE IF Len(pcm_data) < 2 THEN pcm_data
    ELSE IF Len(pcm_data) % 2 = 1 THEN pcm_data       \* struct.error
    ELSE LET samples == Unpack(pcm_data)
             out_len == (Len(samples) * dst_rate) \div src_rate
         IN  IF out_len = 0 THEN pcm_data
             ELSE Pack([k \in 1..out_len |->
                          AppResampleSample(samples, k - 1, src_rate, dst_rate)])

\* One entry of _pending_responses.
PendingResponse(pcm, index) == [pcm |-> pcm, index |-> index]


-----------------------------------------------------------------------------
(* OpenAIRealtimeBridge *)

\* __init__: the bridge as constructed.  thread is "none" until start(),
\* then "connecting", "alive" while _main proxies audio, and "dead" once
\* _run_loop has returned; sender and receiver are the two tasks of _main.
\* ws_sent is the audio the sender has written to the connection, kept
\* when the frame reader feeds the bridge.  log, kept for a bridge whose
\* receiver is watched, holds one record per provider event handled since
\* the last start(): its type and whether handling it sent a
\* response.create message.
NewRtBridge ==
    [input_q |-> <<>>, output_q |-> <<>>, stop_event |-> FALSE,
     session_ready |-> FALSE, response_done |-> FALSE,
     response_in_progress |-> FALSE, auto_response |-> TRUE, thread |-> "none",
     sender |-> "none", receiver |-> "none", ws_sent |-> <<>>, log |-> <<>>]

RtThreadAlive(b) == b.thread \in {"connecting", "alive"}

\* start()
RtStartBridge(b) ==
    IF RtThreadAlive(b) THEN b
    ELSE [b EXCEPT !.stop_event = FALSE, !.session_ready = FALSE,
                   !.response_done = FALSE, !.response_in_progress = FALSE,
                   !.thread = "connecting", !.sender = "none", !.receiver = "none"]

\* stop()
RtStopBridge(b) == [b EXCEPT !.stop_event = TRUE]

\* send_pcm(data) without the queue's capacity.
RtSendPcmQ_Unbounded(q, data) ==
    IF data.ms = 0 THEN q ELSE Append(q, data)

\* send_pcm(data): the new input queue.
RtSendPcmQ(q, data) ==
    IF data.ms = 0 THEN q ELSE PutNowait(q, RtInputQMax, data)

\* recv_pcm(timeout): the chunk returned (<<>> stands for None too: the
\* callers only test its truth value) and the new output queue.
RtRecvChunk(b) == IF b.output_q = <<>> THEN <<>> ELSE Head(b.output_q)
RtRecvRest(b) == IF b.output_q = <<>> THEN <<>> ELSE Tail(b.output_q)

\* _receive_audio, lines 365-379: an audio delta is decoded and offered to
\* the output queue.
RtOnDelta(q, event) ==
    IF ~event.valid THEN q ELSE PutNowait(q, RtOutputQMax, event.delta)

\* _request_response asking for a response whatever is in progress.
SendsResponseCreate_Always(b, event) ==
    /\ event.type = "input_audio_buffer.speech_stopped"
    /\ b.auto_response

\* _receive_audio, lines 360-364, and _request_response: handling the event
\* sends a response.create message.
SendsResponseCreate(b, event) ==
    /\ event.type = "input_audio_buffer.speech_stopped"
    /\ b.auto_response
    /\ ~b.response_in_progress

\* _receive_audio ending the receiver on a provider error.
RtOnEvent_ErrorEndsReceiver(b, event) ==
    IF event.type = "session.updated" THEN [b EXCEPT !.session_ready = TRUE]
    ELSE IF event.type = "error" THEN [b EXCEPT !.receiver = "done"]
    ELSE IF event.type = "response.output_audio.delta"
         THEN [b EXCEPT !.output_q = RtOnDelta(b.output_q, event)]
    ELSE IF event.type = "response.created"
         THEN [b EXCEPT !.response_in_progress = TRUE]
    ELSE IF event.type \in {"response.done", "response.output_audio.done"}
         THEN [b EXCEPT !.response_done = TRUE, !.response_in_progress = FALSE]
    ELSE b

\* _receive_audio leaving response-in-progress set at response.done.
RtOnEvent_DoneKeepsInProgress(b, event) ==
    IF event.type = "session.updated" THEN [b EXCEPT !.session_ready = TRUE]
    ELSE IF event.type = "response.output_audio.delta"
         THEN [b EXCEPT !.output_q = RtOnDelta(b.output_q, event)]
    ELSE IF event.type = "response.created"
         THEN [b EXCEPT !.response_in_progress = TRUE]
    ELSE IF event.type = "response.output_audio.done"
         THEN [b EXCEPT !.response_done = TRUE, !.response_in_progress = FALSE]
    ELSE IF event.type = "response.done"
         THEN [b EXCEPT !.response_done = TRUE]
    ELSE b

\* _receive_audio, lines 329-398: the bridge after one provider event.
RtOnEvent(b, event) ==
    IF event.type = "session.updated" THEN [b EXCEPT !.session_ready = TRUE]
    ELSE IF event.type = "response.output_audio.delta"
         THEN [b EXCEPT !.output_q = RtOnDelta(b.output_q, event)]
    ELSE IF event.type = "response.created"
         THEN [b EXCEPT !.response_in_progress = TRUE]
    ELSE IF event.type \in {"response.done", "response.output_audio.done"}
         THEN [b EXCEPT !.response_done = TRUE, !.response_in_progress = FALSE]
    ELSE b

\* start(), stop(), send_pcm(data) and recv_pcm(timeout) called on the bridge.
RtStart ==
    /\ pipeline \in {"bridge_rt", "bridge_recv"}
    /\ ~RtThreadAlive(rt)
    /\ rt' = [RtStartBridge(rt) EXCEPT !.log = <<>>]
    /\ h_last' = NoSend
    /\ UNCHANGED <<seg_vars, pipeline, call, pending_responses, io, md,
                   h_events, h_enq, h_deq, h_play>>

RtStop ==
    /\ pipeline \in {"bridge_rt", "bridge_recv"}
    /\ ~rt.stop_event
    /\ rt' = RtStopBridge(rt)
    /\ h_last' = NoSend
    /\ UNCHANGED <<seg_vars, pipeline, call, pending_responses, io, md,
                   h_events, h_enq, h_deq, h_play>>

RtSendPcm(data) ==
    /\ pipeline = "bridge_rt"
    /\ rt' = [rt EXCEPT !.input_q = RtSendPcmQ(@, data)]
    /\ h_last' = SendStep("rt_send_pcm", rt.input_q, data)
    /\ UNCHANGED <<seg_vars, pipeline, call, pending_responses, io, md,
                   h_events, h_enq, h_deq, h_play>>

RtRecvPcm ==
    /\ pipeline = "bridge_rt"
    /\ rt.output_q # <<>>
    /\ rt' = [rt EXCEPT !.output_q = RtRecvRest(rt)]
    /\ h_last' = NoSend
    /\ UNCHANGED <<seg_vars, pipeline, call, pending_responses, io, md,
                   h_events, h_enq, h_deq, h_play>>

\* _main, lines 173-186: the connection is made and the session configured
\* (both tasks are created), or either fails and the thread ends.
RtConnect(ok) ==
    /\ pipeline \in {"rt", "bridge_rt", "bridge_recv", "rt_capture"}
    /\ rt.thread = "connecting"
    /\ rt' = IF ok THEN [rt EXCEPT !.thread = "alive", !.sender = "wait",
                                   !.receiver = "recv"]
             ELSE [rt EXCEPT !.thread = "dead"]
    /\ h_last' = NoSend
    /\ UNCHANGED <<seg_vars, pipeline, call, pending_responses, io, md,
                   h_events, h_enq, h_deq, h_play>>

\* The end of the sender's wait setting session-ready itself.
RtSenderWaitEnd_SetsReady ==
    /\ pipeline \in {"rt", "bridge_rt", "bridge_recv", "rt_capture"}
    /\ rt.sender = "wait"
    /\ rt' = [rt EXCEPT !.sender = "loop", !.session_ready = TRUE]
    /\ h_last' = NoSend
    /\ UNCHANGED <<seg_vars, pipeline, call, pending_responses, io, md,
                   h_events, h_enq, h_deq, h_play>>

\* _send_audio, line 285: self._session_ready.wait(timeout=5.0) returns.  The
\* wait is a blocking call made on the event loop's thread, so neither the
\* receiver task nor _main runs until it has returned.
RtSenderWaitEnd ==
    /\ pipeline \in {"rt", "bridge_rt", "bridge_recv", "rt_capture"}
    /\ rt.sender = "wait"
    /\ rt' = [rt EXCEPT !.sender = "loop"]
    /\ h_last' = NoSend
    /\ UNCHANGED <<seg_vars, pipeline, call, pending_responses, io, md,
                   h_events, h_enq, h_deq, h_play>>

\* The sender taking the newest chunk of the input queue.
RtSenderTake_Newest(q) == [chunk |-> Last(q), rest |-> SubSeq(q, 1, Len(q) - 1)]

\* _send_audio, line 293: get_nowait on the input queue.
RtSenderTake(q) == [chunk |-> Head(q), rest |-> Tail(q)]

\* The sender's loop running without the wait for session-ready.
RtSenderStep_WithoutWait(result) ==
    /\ pipeline \in {"rt", "bridge_rt", "bridge_recv", "rt_capture"}
    /\ rt.sender \in {"wait", "loop"}
    /\ rt.stop_event \/ rt.input_q # <<>>
    /\ rt' = IF rt.stop_event THEN [rt EXCEPT !.sender = "done"]
             ELSE LET t == RtSenderTake(rt.input_q)
                  IN  [rt EXCEPT !.input_q = t.rest,
                                 !.sender = IF result = "ok" THEN "loop" ELSE "done",
                                 !.ws_sent = IF result = "ok" /\ pipeline = "rt_capture"
                                             THEN Append(@, t.chunk) ELSE @]
    /\ h_last' = NoSend
    /\ UNCHANGED <<seg_vars, pipeline, call, pending_responses, io, md,
                   h_events, h_enq, h_deq, h_play>>

\* _send_audio, lines 288-315: one iteration of the sender that finds the stop
\* event set or a chunk in the input queue; result is what ws.send does.
RtSenderStep(result) ==
    /\ pipeline \in {"rt", "bridge_rt", "bridge_recv", "rt_capture"}
    /\ rt.sender = "loop"
    /\ rt.stop_event \/ rt.input_q # <<>>
    /\ rt' = IF rt.stop_event THEN [rt EXCEPT !.sender = "done"]
             ELSE LET t == RtSenderTake(rt.input_q)
                  IN  [rt EXCEPT !.input_q = t.rest,
                                 !.sender = IF result = "ok" THEN "loop" ELSE "done",
                                 !.ws_sent = IF result = "ok" /\ pipeline = "rt_capture"
                                             THEN Append(@, t.chunk) ELSE @]
    /\ h_last' = NoSend
    /\ UNCHANGED <<seg_vars, pipeline, call, pending_responses, io, md,
                   h_events, h_enq, h_deq, h_play>>

\* _receive_audio: one provider event is handled.
RtReceive(event) ==
    /\ pipeline \in {"rt", "bridge_rt", "bridge_recv"}
    /\ rt.receiver = "recv"
    /\ rt.sender # "wait"
    /\ pipeline = "rt" => h_events < MaxEvents
    /\ pipeline = "bridge_recv" => Len(rt.log) < MaxRecvLog
    /\ h_events' = IF pipeline = "rt" THEN h_events + 1 ELSE h_events
    /\ rt' = [RtOnEvent(rt, event) EXCEPT !.log =
                 IF pipeline = "bridge_recv"
                 THEN Append(@, [type |-> event.type,
                                 create |-> SendsResponseCreate(rt, event)])
                 ELSE @]
    /\ h_last' = IF /\ pipeline = "bridge_rt"
                    /\ event.type = "response.output_audio.delta"
                    /\ event.valid
                 THEN SendStep("rt_delta", rt.output_q, event.delta)
                 ELSE NoSend
    /\ UNCHANGED <<seg_vars, pipeline, call, pending_responses, io, md,
                   h_enq, h_deq, h_play>>

\* _receive_audio, lines 400-403: the connection is closed by the provider.
RtReceiverClosed ==
    /\ pipeline \in {"rt", "bridge_rt", "bridge_recv"}
    /\ rt.receiver = "recv"
    /\ rt.sender # "wait"
    /\ rt' = [rt EXCEPT !.receiver = "done"]
    /\ h_last' = NoSend
    /\ UNCHANGED <<seg_vars, pipeline, call, pending_responses, io, md,
                   h_events, h_enq, h_deq, h_play>>

\* _main, lines 188-211: the stop event is seen; both tasks are cancelled and
\* the thread ends.
RtMainExit ==
    /\ pipeline \in {"rt", "bridge_rt", "bridge_recv"}
    /\ rt.thread = "alive"
    /\ rt.sender # "wait"
    /\ rt.stop_event
    /\ rt' = [rt EXCEPT !.thread = "dead", !.sender = "done", !.receiver = "done"]
    /\ h_last' = NoSend
    /\ UNCHANGED <<seg_vars, pipeline, call, pending_responses, io, md,
                   h_events, h_enq, h_deq, h_play>>

-----------------------------------------------------------------------------
(* The I/O thread: _audio_io_loop *)

\* The locals of _audio_io_loop when the thread is created.  pc is "none"
\* while no I/O thread exists and "done" once it has ended.  response_pcm and got_any belong to AiBotCall's
\* loop; accumulated and the fields after it to AiRealtimeCall's.
NewIo(pc) ==
    [pc |-> pc, response_counter |-> 0,
     response_pcm |-> <<>>, got_any |-> FALSE,
     accumulated |-> <<>>, drain_after_stop |-> FALSE,
     drain_after_stop_count |-> 0, drain_iterations |-> 0,
     i |-> 0, consecutive_empty |-> 0, bridge_thread_running |-> FALSE,
     response_complete |-> FALSE, timed_out |-> FALSE,
     read_after_stop |-> FALSE]

\* Both loops, up to open(rec_path, "rb"): the wait for the recorder's file
\* ends (the file is there, or the stop signal is set) and the file is opened,
\* or cannot be opened and the thread returns.
IoOpen(ok) ==
    /\ io.pc = "wait_file"
    /\ io' = [io EXCEPT !.pc = IF ok THEN "loop" ELSE "done"]
    /\ h_last' = NoSend
    /\ UNCHANGED <<seg_vars, pipeline, rt, call, pending_responses, md,
                   h_events, h_enq, h_deq, h_play>>

\* ---- AiRealtimeCall._audio_io_loop ----

\* Line 390 without the stop signal: the loop is never left.
IoRtLoop_IgnoresStop ==
    /\ pipeline = "rt"
    /\ io.pc = "loop"
    /\ io' = [io EXCEPT !.pc = "top"]
    /\ h_last' = NoSend
    /\ UNCHANGED <<seg_vars, pipeline, rt, call, pending_responses, md,
                   h_events, h_enq, h_deq, h_play>>

\* Line 390: the loop condition.  (The locals that the final flush does not
\* read are dropped when the loop is left; read_after_stop is kept.)
IoRtLoop ==
    /\ pipeline = "rt"
    /\ io.pc = "loop"
    /\ io' = IF \/ ~call.io_stop
                \/ /\ io.drain_after_stop
                   /\ io.drain_after_stop_count < DrainAfterStopMax
             THEN [io EXCEPT !.pc = "top"]
             ELSE [NewIo("flush_poll") EXCEPT
                      !.response_counter = io.response_counter,
                      !.accumulated = io.accumulated,
                      !.read_after_stop = io.read_after_stop]
    /\ h_last' = NoSend
    /\ UNCHANGED <<seg_vars, pipeline, rt, call, pending_responses, md,
                   h_events, h_enq, h_deq, h_play>>

\* Lines 392-397.
IoRtTop ==
    /\ pipeline = "rt"
    /\ io.pc = "top"
    /\ LET das == io.drain_after_stop \/ call.io_stop
       IN  io' = [io EXCEPT !.pc = "capture", !.drain_after_stop = das,
                            !.drain_after_stop_count = IF das THEN @ + 1 ELSE @]
    /\ h_last' = NoSend
    /\ UNCHANGED <<seg_vars, pipeline, rt, call, pending_responses, md,
                   h_events, h_enq, h_deq, h_play>>

\* Lines 401-404: f.read is called unless the stop signal is set.
ReadsCapture(io_stop) == ~io_stop

\* Lines 399-456 when the capture stream holds no new frame (or the stop
\* signal is set): nothing is sent, and the drain starts.  read_after_stop
\* tells whether f.read was ever called with the stop signal set.
IoRtCaptureEnd ==
    /\ pipeline = "rt"
    /\ io.pc = "capture"
    /\ io' = [io EXCEPT !.pc = "drain", !.drain_iterations = 0,
                        !.read_after_stop =
                            @ \/ (call.io_stop /\ ReadsCapture(call.io_stop))]
    /\ h_last' = NoSend
    /\ UNCHANGED <<seg_vars, pipeline, rt, call, pending_responses, md,
                   h_events, h_enq, h_deq, h_play>>

\* Lines 458-471: one iteration of the drain loop.
IoRtDrain ==
    /\ pipeline = "rt"
    /\ io.pc = "drain"
    /\ IF /\ ~call.io_stop \/ io.drain_after_stop
          /\ io.drain_iterations < DrainIterationsMax
       THEN LET chunk == RtRecvChunk(rt)
            IN  /\ rt' = [rt EXCEPT !.output_q = RtRecvRest(rt)]
                /\ io' = IF chunk # <<>>
                         THEN [io EXCEPT !.accumulated = @ \o chunk,
                                         !.drain_iterations = 0]
                         ELSE [io EXCEPT !.drain_iterations = @ + 1,
                                         !.pc = IF io.drain_iterations + 1 >= DrainEmptyBreak
                                                THEN "decide" ELSE "drain"]
       ELSE /\ io' = [io EXCEPT !.pc = "decide"]
            /\ rt' = rt
    /\ h_last' = NoSend
    /\ UNCHANGED <<seg_vars, pipeline, call, pending_responses, md,
                   h_events, h_enq, h_deq, h_play>>

\* Lines 476-491 queueing whatever has accumulated.
ShouldQueue_AnyAudio(accumulated, response_complete, io_stop, timed_out) ==
    accumulated # <<>>

\* Lines 476-491: whether to queue what has accumulated.  timed_out tells
\* whether _RESPONSE_DRAIN_TIMEOUT_S has passed since the last chunk
\* (current_time - last_audio_time >= 0.3, line 488); it is kept until the
\* response-done flag is cleared.
ShouldQueue(accumulated, response_complete, io_stop, timed_out) ==
    accumulated # <<>> /\ (response_complete \/ io_stop \/ timed_out)

\* Lines 493-506 without the resampling to the call's rate.
IoRtQueued_NoResample(l, rate) ==
    PendingResponse(l.accumulated, l.response_counter)

\* Lines 493-506: the response handed to the main thread, and the locals
\* after it.
IoRtQueued(l, rate) ==
    PendingResponse(AppResamplePcm(l.accumulated, OpenAiSampleRate, rate),
                    l.response_counter)
\* Lines 507-511 without response_counter += 1.
IoRtAfterQueue_SameIndex(l) ==
    [l EXCEPT !.accumulated = <<>>, !.pc = "clear"]

IoRtAfterQueue(l) ==
    [l EXCEPT !.response_counter = @ + 1, !.accumulated = <<>>, !.pc = "clear"]

\* Lines 476-506: the decision and, when it is taken, the hand-off.
IoRtFlush(timed_out) ==
    /\ pipeline = "rt"
    /\ io.pc = "decide"
    /\ IF ShouldQueue(io.accumulated, rt.response_done, call.io_stop, timed_out)
       THEN /\ pending_responses' =
                   Append(pending_responses, IoRtQueued(io, call.sample_rate))
            /\ h_enq' = Append(h_enq, io.response_counter)
            /\ io' = [IoRtAfterQueue(io) EXCEPT
                          !.response_complete = rt.response_done,
                          !.timed_out = timed_out]
       ELSE /\ io' = [io EXCEPT !.pc = "loop",
                                !.response_complete = rt.response_done]
            /\ UNCHANGED <<pending_responses, h_enq>>
    /\ h_last' = NoSend
    /\ UNCHANGED <<seg_vars, pipeline, rt, call, md, h_events, h_deq, h_play>>

\* Lines 507-509: self._bridge._response_done.clear()
IoRtClearDone ==
    /\ pipeline = "rt"
    /\ io.pc = "clear"
    /\ rt' = [rt EXCEPT !.response_done = FALSE]
    /\ io' = [io EXCEPT !.pc = "loop", !.timed_out = FALSE]
    /\ h_last' = NoSend
    /\ UNCHANGED <<seg_vars, pipeline, call, pending_responses, md,
                   h_events, h_enq, h_deq, h_play>>

\* Lines 534-541: one non-blocking poll of the final flush.
IoRtFinalPoll ==
    /\ pipeline = "rt"
    /\ io.pc = "flush_poll"
    /\ LET chunk == RtRecvChunk(rt)
           wait == [io EXCEPT !.pc = "flush_wait", !.i = 0,
                              !.consecutive_empty = 0,
                              !.bridge_thread_running = RtThreadAlive(rt)]
       IN  IF io.i >= FlushPollMax
           THEN /\ io' = wait
                /\ rt' = rt
           ELSE /\ rt' = [rt EXCEPT !.output_q = RtRecvRest(rt)]
                /\ io' = IF chunk # <<>>
                         THEN [io EXCEPT !.accumulated = @ \o chunk, !.i = @ + 1]
                         ELSE wait
    /\ h_last' = NoSend
    /\ UNCHANGED <<seg_vars, pipeline, call, pending_responses, md,
                   h_events, h_enq, h_deq, h_play>>

\* Lines 550-577: one iteration of the final flush's wait loop.
IoRtFinalWait ==
    /\ pipeline = "rt"
    /\ io.pc = "flush_wait"
    /\ IF io.i >= FlushWaitMax
       THEN /\ io' = [io EXCEPT !.pc = "flush_put"]
            /\ rt' = rt
       ELSE LET chunk == RtRecvChunk(rt)
                acc == io.accumulated \o chunk
                ce == IF chunk # <<>> THEN 0 ELSE io.consecutive_empty + 1
                done == rt.response_done /\ ce >= FlushDoneEmpties
                dead == /\ io.i >= FlushDeadAfter
                        /\ ~io.bridge_thread_running
                        /\ ce >= FlushDeadEmpties
                silent == io.i >= FlushNoAudioAfter /\ acc = <<>>
            IN  /\ rt' = [rt EXCEPT !.output_q = RtRecvRest(rt)]
                /\ io' = [io EXCEPT
                            !.accumulated = acc,
                            !.consecutive_empty = ce,
                            !.pc = IF done \/ dead \/ silent
                                   THEN "flush_put" ELSE "flush_wait",
                            !.bridge_thread_running =
                                IF ~(done \/ dead \/ silent)
                                   /\ io.i % FlushRefreshEvery = 0
                                THEN RtThreadAlive(rt) ELSE @,
                            !.i = IF done \/ dead \/ silent THEN @ ELSE @ + 1]
    /\ h_last' = NoSend
    /\ UNCHANGED <<seg_vars, pipeline, call, pending_responses, md,
                   h_events, h_enq, h_deq, h_play>>

\* Lines 580-594: what is still accumulated is handed to the main thread.
IoRtFinalPut ==
    /\ pipeline = "rt"
    /\ io.pc = "flush_put"
    /\ IF io.accumulated # <<>>
       THEN /\ pending_responses' =
                   Append(pending_responses, IoRtQueued(io, call.sample_rate))
            /\ h_enq' = Append(h_enq, io.response_counter)
       ELSE UNCHANGED <<pending_responses, h_enq>>
    /\ io' = NewIo("done")
    /\ h_last' = NoSend
    /\ UNCHANGED <<seg_vars, pipeline, rt, call, md, h_events, h_deq, h_play>>

\* ---- AiBotCall._audio_io_loop ----

\* Line 318: the loop condition.
IoBotLoop ==
    /\ pipeline = "seg"
    /\ io.pc = "loop"
    /\ io' = IF call.io_stop THEN NewIo("done") ELSE [io EXCEPT !.pc = "capture"]
    /\ h_last' = NoSend
    /\ UNCHANGED <<seg_vars, pipeline, rt, call, pending_responses, md,
                   h_events, h_enq, h_deq, h_play>>

\* Lines 320-337: one frame of the bytes read is handed to send_pcm.
IoBotSendFrame(frame) ==
    /\ pipeline = "seg"
    /\ io.pc \in {"capture", "frames"}
    /\ h_sent < CallMaxFrames
    /\ h_sent' = h_sent + 1
    /\ seg_input_q' = SegSendPcmQ(seg_input_q, frame)
    /\ io' = [io EXCEPT !.pc = "frames"]
    /\ h_last' = NoSend
    /\ UNCHANGED <<seg_output_q, seg_audio_buffer, seg_silence_frames,
                   seg_speech_detected, seg_processing, seg_messages, seg_stop_event,
                   seg_silence_duration_ms, seg_sample_rate, seg_pc, seg_tts,
                   h_vad_in, h_log, h_cur,
                   pipeline, rt, call, pending_responses, md,
                   h_events, h_enq, h_deq, h_play>>

\* Lines 338-341: the bytes read are used up; the drain starts.
IoBotCaptureEnd ==
    /\ pipeline = "seg"
    /\ io.pc \in {"capture", "frames"}
    /\ io' = [io EXCEPT !.pc = "drain", !.response_pcm = <<>>, !.got_any = FALSE]
    /\ h_last' = NoSend
    /\ UNCHANGED <<seg_vars, pipeline, rt, call, pending_responses, md,
                   h_events, h_enq, h_deq, h_play>>

\* Lines 342-357: one iteration of the drain loop, up to the poll for a
\* trailing chunk.
IoBotDrain ==
    /\ pipeline = "seg"
    /\ io.pc = "drain"
    /\ IF call.io_stop
       THEN /\ io' = [io EXCEPT !.pc = "put"]
            /\ UNCHANGED seg_output_q
       ELSE IF seg_output_q # <<>> /\ Head(seg_output_q) # <<>>
       THEN /\ io' = [io EXCEPT !.response_pcm = @ \o Head(seg_output_q),
                                !.got_any = TRUE]
            /\ seg_output_q' = Tail(seg_output_q)
       ELSE /\ io' = [io EXCEPT !.pc = IF io.got_any THEN "trailing" ELSE "put"]
            /\ seg_output_q' = IF seg_output_q = <<>> THEN <<>> ELSE Tail(seg_output_q)
    /\ h_last' = NoSend
    /\ UNCHANGED <<seg_input_q, seg_audio_buffer, seg_silence_frames,
                   seg_speech_detected, seg_processing, seg_messages, seg_stop_event,
                   seg_silence_duration_ms, seg_sample_rate, seg_pc, seg_tts,
                   h_sent, h_vad_in, h_log, h_cur,
                   pipeline, rt, call, pending_responses, md,
                   h_events, h_enq, h_deq, h_play>>

\* Lines 350-356: the poll for a trailing chunk.
IoBotTrailing ==
    /\ pipeline = "seg"
    /\ io.pc = "trailing"
    /\ IF seg_output_q # <<>> /\ Head(seg_output_q) # <<>>
       THEN /\ io' = [io EXCEPT !.response_pcm = @ \o Head(seg_output_q),
                                !.pc = "drain"]
            /\ seg_output_q' = Tail(seg_output_q)
       ELSE /\ io' = [io EXCEPT !.pc = "put"]
            /\ seg_output_q' = IF seg_output_q = <<>> THEN <<>> ELSE Tail(seg_output_q)
    /\ h_last' = NoSend
    /\ UNCHANGED <<seg_input_q, seg_audio_buffer, seg_silence_frames,
                   seg_speech_detected, seg_processing, seg_messages, seg_stop_event,
                   seg_silence_duration_ms, seg_sample_rate, seg_pc, seg_tts,
                   h_sent, h_vad_in, h_log, h_cur,
                   pipeline, rt, call, pending_responses, md,
                   h_events, h_enq, h_deq, h_play>>

\* Lines 359-370: the locals after the hand-off.
IoBotAfterQueue(l) == [l EXCEPT !.response_counter = @ + 1, !.pc = "loop"]

\* Lines 359-370: the response drained is handed to the main thread.
IoBotPut ==
    /\ pipeline = "seg"
    /\ io.pc = "put"
    /\ IF io.response_pcm # <<>> /\ ~call.io_stop
       THEN /\ pending_responses' =
                   Append(pending_responses,
                          PendingResponse(io.response_pcm, io.response_counter))
            /\ h_enq' = Append(h_enq, io.response_counter)
            /\ io' = IoBotAfterQueue(io)
       ELSE /\ io' = [io EXCEPT !.pc = "loop"]
            /\ UNCHANGED <<pending_responses, h_enq>>
    /\ h_last' = NoSend
    /\ UNCHANGED <<seg_vars, pipeline, rt, call, md, h_events, h_deq, h_play>>

-----------------------------------------------------------------------------
(* The main thread: run_call's loop, the callbacks it delivers, playback *)

\* The call object as constructed.  sample_rate is the clock rate the call
\* stream will report.
\* bridge_threads and io_threads count the threads onCallMediaState has
\* started for the call: bridge worker threads and I/O threads.
\* remote_bye: the remote party has ended the call and the SIP stack has not
\* yet been given the processor to deliver onCallState.
NewCall(rate) ==
    [io_stop |-> FALSE, aud_med |-> FALSE, disconnected |-> FALSE,
     media_setup_done |-> FALSE, sample_rate |-> rate,
     bridge_threads |-> 0, io_threads |-> 0, remote_bye |-> FALSE]

NoResponse == PendingResponse(<<>>, -1)

\* __init__, line 189 (AiBotCall: line 124): _pending_responses is Queue(),
\* whose maxsize is 0: a queue.Queue that is never full.
PendingMaxsize == 0

\* pc is "events" in libHandleEvents, "cleanup" inside _cleanup_media, "get"
\* at the get_nowait of process_pending_responses, "wait" in the wait loop of
\* _play_response, "done" once run_call's loops have ended and "failed" once
\* an exception has left them.  cur is the response being played and elapsed
\* the milliseconds slept in the wait loop since its deadline was computed.
NewMd(pc) == [pc |-> pc, cur |-> NoResponse, attached |-> {}, elapsed |-> 0]

\* run_call's loops going on after the call has been disconnected.
MdLoopPc_IgnoresDisconnect(c) == "events"

\* run_call, lines 721 and 734: while not call.disconnected
MdLoopPc(c) == IF c.disconnected THEN "done" ELSE "events"

\* process_pending_responses, lines 648-649, called once libHandleEvents has
\* returned: where the main thread goes.
MdProcessPc(c) == IF c.io_stop \/ ~c.aud_med THEN MdLoopPc(c) ELSE "get"

\* libHandleEvents(50) delivers nothing.
MdNoEvent ==
    /\ md.pc = "events"
    /\ pipeline = "play" => ~call.remote_bye
    /\ md' = [md EXCEPT !.pc = MdProcessPc(call)]
    /\ h_last' = NoSend
    /\ UNCHANGED <<seg_vars, pipeline, rt, call, pending_responses, io,
                   h_events, h_enq, h_deq, h_play>>

\* onCallMediaState running its setup whatever _media_setup_done says.
MediaSetupNeeded_Always(c) == TRUE

\* onCallMediaState, lines 245-246: the callback returns at once when the
\* media has been set up (libHandleEvents has then done nothing: MdNoEvent).
MediaSetupNeeded(c) == ~c.media_setup_done

\* onCallMediaState with an active audio stream.  ok = FALSE: the setup
\* raises before the bridge is started.
MdMediaActive(ok) ==
    /\ md.pc = "events"
    /\ MediaSetupNeeded(call)
    /\ h_last' = NoSend
    /\ IF ~ok
       THEN /\ call' = [call EXCEPT !.aud_med = TRUE]
            /\ UNCHANGED <<seg_stop_event, seg_sample_rate, seg_pc, rt, io>>
       ELSE /\ call' = [call EXCEPT !.aud_med = TRUE, !.io_stop = FALSE,
                                    !.media_setup_done = TRUE,
                                    !.io_threads = @ + 1,
                                    !.bridge_threads =
                                        IF pipeline = "rt" \/ seg_pc \in {"not_started", "exited"}
                                        THEN @ + 1 ELSE @]
            /\ io' = NewIo("wait_file")
            /\ IF pipeline = "rt"
               THEN /\ rt' = RtStartBridge(NewRtBridge)
                    /\ UNCHANGED <<seg_stop_event, seg_sample_rate, seg_pc>>
               ELSE /\ rt' = rt
                    /\ IF seg_pc \in {"not_started", "exited"}
                       THEN /\ seg_sample_rate' = call.sample_rate
                            /\ seg_stop_event' = FALSE
                            /\ seg_pc' = "loop"
                       ELSE UNCHANGED <<seg_stop_event, seg_sample_rate, seg_pc>>
    /\ md' = [md EXCEPT !.pc = MdProcessPc(call')]
    /\ UNCHANGED <<seg_input_q, seg_output_q, seg_audio_buffer, seg_silence_frames,
                   seg_speech_detected, seg_processing, seg_messages,
                   seg_silence_duration_ms, seg_tts, h_sent, h_vad_in, h_log, h_cur,
                   pipeline, pending_responses, h_events, h_enq, h_deq, h_play>>

\* onCallState with the call disconnected, up to the joins of _cleanup_media:
\* the stop signal is set and the bridge is told to stop.
MdDisconnected ==
    /\ md.pc = "events"
    /\ pipeline = "play" => call.remote_bye
    /\ md' = [md EXCEPT !.pc = "cleanup"]
    /\ call' = [call EXCEPT !.disconnected = TRUE, !.io_stop = TRUE,
                            !.remote_bye = FALSE]
    /\ rt' = IF pipeline \in {"rt", "play"} /\ rt.thread # "none"
             THEN RtStopBridge(rt) ELSE rt
    /\ seg_stop_event' = IF pipeline = "seg" THEN TRUE ELSE seg_stop_event
    /\ h_last' = NoSend
    /\ UNCHANGED <<seg_input_q, seg_output_q, seg_audio_buffer, seg_silence_frames,
                   seg_speech_detected, seg_processing, seg_messages,
                   seg_silence_duration_ms, seg_sample_rate, seg_pc, seg_tts,
                   h_sent, h_vad_in, h_log, h_cur,
                   pipeline, pending_responses, io, h_events, h_enq, h_deq, h_play>>

\* The items a drain of the pending queue takes, as h_deq records them.
Taken(q, by) == [k \in 1..Len(q) |-> [index |-> q[k].index, by |-> by]]

\* _cleanup_media after the joins (which end when the threads have, or at
\* their timeouts): the queued responses are dropped and the media released;
\* then process_pending_responses, which finds the stop signal set.
MdCleanup ==
    /\ md.pc = "cleanup"
    /\ call' = [call EXCEPT !.aud_med = FALSE, !.media_setup_done = FALSE]
    /\ md' = [md EXCEPT !.pc = MdProcessPc(call')]
    /\ pending_responses' = <<>>
    /\ h_deq' = h_deq \o Taken(pending_responses, "drop")
    /\ h_last' = NoSend
    /\ UNCHANGED <<seg_vars, pipeline, rt, io, h_events, h_enq, h_play>>

\* _play_response(pcm, index) up to its wait loop.  outcome: "ok",
\* "wav_error" when _write_wav raises, "player_error" when createPlayer or
\* startTransmit does.
PlayStart(m, c, item, outcome) ==
    IF ~c.aud_med \/ c.io_stop THEN [m EXCEPT !.pc = "get"]
    ELSE IF outcome = "wav_error" THEN [m EXCEPT !.pc = "failed"]
    ELSE IF outcome = "player_error" THEN [m EXCEPT !.pc = "get"]
    ELSE [m EXCEPT !.pc = "wait", !.cur = item, !.attached = @ \cup {item.index}]

\* process_pending_responses, lines 651-656: get_nowait, and _play_response
\* on the item taken.
MdGet(outcome) ==
    /\ md.pc = "get"
    /\ IF pending_responses = <<>>
       THEN /\ md' = [md EXCEPT !.pc = MdLoopPc(call)]
            /\ UNCHANGED <<pending_responses, h_deq, h_play>>
       ELSE LET item == Head(pending_responses)
            IN  /\ md' = PlayStart(md, call, item, outcome)
                /\ pending_responses' = Tail(pending_responses)
                /\ h_deq' = Append(h_deq, [index |-> item.index, by |-> "play"])
                /\ h_play' = IF md'.pc = "wait"
                             THEN Append(h_play, [ev |-> "attach",
                                                  index |-> item.index])
                             ELSE h_play
    /\ h_last' = NoSend
    /\ UNCHANGED <<seg_vars, pipeline, rt, call, io, h_events, h_enq>>

\* _play_response without stopTransmit and the release of the player.
PlayEnd_KeepsAttached(m) ==
    [m EXCEPT !.pc = "get", !.cur = NoResponse, !.elapsed = 0]

\* _play_response, lines 619-627: the wait loop ends (the deadline has passed
\* or the stop signal is set), stopTransmit is called and the player deleted.
PlayEnd(m) ==
    [m EXCEPT !.pc = "get", !.cur = NoResponse, !.attached = @ \ {m.cur.index},
              !.elapsed = 0]

\* Line 621: time.sleep(0.05), in milliseconds.
PollMs == 50

\* Line 618: the grace added to the duration of the response, in milliseconds.
PlayGraceMs == 500

\* Lines 608 and 618: the deadline of the wait, in milliseconds after the
\* clock was read: len(pcm) / (sample_rate * 2) seconds and the grace.
PlayDeadlineMs(pcm, rate) == (Len(pcm) * 1000) \div (rate * 2) + PlayGraceMs

\* Line 619, the condition of the wait loop negated:
\* not (time.monotonic() < deadline and not self._io_stop.is_set())
WaitOver(m, c) ==
    m.elapsed >= PlayDeadlineMs(m.cur.pcm, c.sample_rate) \/ c.io_stop

\* Lines 619-621: one pass of the wait loop, which sleeps and does nothing
\* else: libHandleEvents is not called, so no callback runs meanwhile.
MdPlayPoll ==
    /\ pipeline = "play"
    /\ md.pc = "wait"
    /\ ~WaitOver(md, call)
    /\ md' = [md EXCEPT !.elapsed = @ + PollMs]
    /\ h_last' = NoSend
    /\ UNCHANGED <<seg_vars, pipeline, rt, call, pending_responses, io,
                   h_events, h_enq, h_deq, h_play>>

\* The remote party ends the call: its BYE reaches the socket, where it stays
\* until libHandleEvents is called (create_endpoint: threadCnt = 0 and
\* mainThreadOnly, so the SIP stack has no thread that could deliver it).
\* h_play records what the main thread was playing and how long it had waited.
RemoteBye ==
    /\ pipeline = "play"
    /\ ~call.remote_bye
    /\ ~call.disconnected
    /\ call' = [call EXCEPT !.remote_bye = TRUE]
    /\ h_play' = Append(h_play, [ev |-> "bye", index |-> md.cur.index,
                                 at |-> md.elapsed])
    /\ h_last' = NoSend
    /\ UNCHANGED <<seg_vars, pipeline, rt, pending_responses, io, md,
                   h_events, h_enq, h_deq>>

\* The wait loop ends.  The length of the wait is followed only where the
\* clock is (pipeline "play"); elsewhere the wait ends at any time.
MdPlayEnd ==
    /\ md.pc = "wait"
    /\ pipeline = "play" => WaitOver(md, call)
    /\ md' = PlayEnd(md)
    /\ h_play' = Append(h_play, [ev |-> "detach", index |-> md.cur.index])
    /\ h_last' = NoSend
    /\ UNCHANGED <<seg_vars, pipeline, rt, call, pending_responses, io,
                   h_events, h_enq, h_deq>>

-----------------------------------------------------------------------------
(* The frame reader of _audio_io_loop, byte by byte *)

\* Reads of the capture file in one behaviour.
MaxReads == 3

\* Sample rates found in the header of the capture file; they make a 20 ms
\* frame 4 and 8 bytes long (8000 Hz makes it 320).
ReaderFileRates == {100, 200}

\* The capture file after its header: the byte at offset k (from 1).
StreamByte(k) == (k * 7) % 256

\* The locals of the frame reader: file_sample_rate, frame_bytes_file, the
\* offset reached in the file (pos), leftover, every frame sliced off so far
\* (frames), the index in frames of the next one to resample and hand to
\* send_pcm (next), and what send_pcm was handed so far (offered).
NewReader(file_sample_rate) ==
    [pc |-> "reader", file_sample_rate |-> file_sample_rate,
     frame_bytes_file |-> (file_sample_rate * 2) \div 50,
     pos |-> 0, reads |-> 0, leftover |-> <<>>, frames |-> <<>>, next |-> 1,
     offered |-> <<>>]

\* app_ai_realtime_call.py lines 420-427 and 436-443: a resampled frame is
\* cut or padded with zero samples to the size expected.
FitFrame(frame, expected) ==
    IF Len(frame) = expected THEN frame
    ELSE IF Len(frame) > expected THEN SubSeq(frame, 1, expected)
    ELSE IF Len(frame) > 0
         THEN frame \o [j \in 1..(2 * ((expected - Len(frame)) \div 2)) |-> 0]
    ELSE frame

\* Lines 413-444: a frame of the capture file brought to the call's rate
\* and then to the provider's.
ToOpenAi(frame, file_sample_rate, call_sample_rate) ==
    LET frame_at_call_rate ==
            IF file_sample_rate # call_sample_rate
            THEN FitFrame(AppResamplePcm(frame, file_sample_rate, call_sample_rate),
                          (call_sample_rate * 2) \div 50)
            ELSE frame
    IN  IF call_sample_rate # OpenAiSampleRate
        THEN FitFrame(AppResamplePcm(frame_at_call_rate, call_sample_rate,
                                     OpenAiSampleRate),
                      (OpenAiSampleRate * 2) \div 50)
        ELSE frame_at_call_rate

\* A frame as send_pcm is handed it.
CaptureFrame(pcm) == [ms |-> IF pcm = <<>> THEN 0 ELSE 20, pcm |-> pcm]

\* The slicing without the leftover of the read before.
SliceFrames_DropsLeftover(leftover, raw, frame_bytes_file) ==
    IF raw = <<>> THEN [frames |-> <<>>, leftover |-> leftover]
    ELSE LET n_full == (Len(raw) \div frame_bytes_file) * frame_bytes_file
         IN  [frames |-> [k \in 1..(n_full \div frame_bytes_file) |->
                            SubSeq(raw, (k - 1) * frame_bytes_file + 1,
                                   k * frame_bytes_file)],
              leftover |-> SubSeq(raw, n_full + 1, Len(raw))]

\* app_ai_realtime_call.py lines 405-451, app_ai_chatbot_call.py lines
\* 322-337: the frames sliced off leftover + raw, and the new leftover.
SliceFrames(leftover, raw, frame_bytes_file) ==
    IF raw = <<>> THEN [frames |-> <<>>, leftover |-> leftover]
    ELSE LET all == leftover \o raw
             n_full == (Len(all) \div frame_bytes_file) * frame_bytes_file
         IN  [frames |-> [k \in 1..(n_full \div frame_bytes_file) |->
                            SubSeq(all, (k - 1) * frame_bytes_file + 1,
                                   k * frame_bytes_file)],
              leftover |-> SubSeq(all, n_full + 1, Len(all))]

\* One pass of the capture step: f.read(frame_bytes_file * 10) returns n
\* bytes, which are sliced into frames.  (For the reader taken alone, what is
\* done with the frames is left out.)
IoRead(n) ==
    /\ pipeline \in {"reader", "rt_capture", "seg_capture"}
    /\ pipeline # "reader" => io.next > Len(io.frames)
    /\ io.reads < MaxReads
    /\ n <= io.frame_bytes_file * 10
    /\ LET raw == [j \in 1..n |-> StreamByte(io.pos + j)]
           r == SliceFrames(io.leftover, raw, io.frame_bytes_file)
       IN  io' = [io EXCEPT !.pos = @ + n, !.reads = @ + 1,
                            !.leftover = r.leftover,
                            !.frames = @ \o r.frames]
    /\ h_last' = NoSend
    /\ UNCHANGED <<seg_vars, pipeline, rt, call, pending_responses, md,
                   h_events, h_enq, h_deq, h_play>>

\* Lines 411-447: the next frame sliced off is resampled and handed to
\* send_pcm (which is not called for an empty frame).  In AiBotCall's loop
\* (pipeline "seg_capture", app_ai_chatbot_call.py lines 327-336) the frame
\* is brought to the call's rate by the bridge's _resample_pcm when the rates
\* differ, and handed to send_pcm as that returned it.
IoSendFrame ==
    /\ pipeline \in {"rt_capture", "seg_capture"}
    /\ io.next <= Len(io.frames)
    /\ LET frame_at_file_rate == io.frames[io.next]
           handed ==
               IF pipeline = "rt_capture"
               THEN ToOpenAi(frame_at_file_rate, io.file_sample_rate, call.sample_rate)
               ELSE IF io.file_sample_rate # call.sample_rate
               THEN SegResamplePcm(frame_at_file_rate, io.file_sample_rate,
                                   call.sample_rate)
               ELSE frame_at_file_rate
       IN  /\ rt' = IF pipeline = "rt_capture"
                    THEN [rt EXCEPT !.input_q = RtSendPcmQ(@, CaptureFrame(handed))]
                    ELSE rt
           /\ seg_input_q' = IF pipeline = "seg_capture"
                             THEN SegSendPcmQ(seg_input_q, CaptureFrame(handed))
                             ELSE seg_input_q
           /\ io' = [io EXCEPT !.next = @ + 1, !.offered = Append(@, handed)]
    /\ h_last' = NoSend
    /\ UNCHANGED <<seg_output_q, seg_audio_buffer, seg_silence_frames,
                   seg_speech_detected, seg_processing, seg_messages, seg_stop_event,
                   seg_silence_duration_ms, seg_sample_rate, seg_pc, seg_tts,
                   h_sent, h_vad_in, h_log, h_cur,
                   pipeline, call, pending_responses, md,
                   h_events, h_enq, h_deq, h_play>>

-----------------------------------------------------------------------------
(* Specifications *)

\* The frame reader alone, on a capture file of either sample rate.
InitReader ==
    /\ InitSeg
    /\ seg_silence_duration_ms = FrameMs
    /\ pipeline = "reader"
    /\ rt = NewRtBridge
    /\ call = NewCall(8000)
    /\ pending_responses = <<>>
    /\ io \in {NewReader(rate) : rate \in ReaderFileRates}
    /\ md = NewMd("none")
    /\ h_events = 0
    /\ h_enq = <<>>
    /\ h_deq = <<>>
    /\ h_play = <<>>

NextReader ==
    LET rate == CHOOSE r \in ReaderFileRates : \A q \in ReaderFileRates : q <= r
    IN  \E n \in 0..(10 * ((rate * 2) \div 50)) : IoRead(n)

SpecReader == InitReader /\ [][NextReader]_vars

\* The streaming pipeline's capture path: the frame reader, with the bridge
\* onCallMediaState has started.  A read returns no bytes, part of a frame,
\* one frame, or two frames and a byte.
InitCapture ==
    /\ InitSeg
    /\ seg_silence_duration_ms = FrameMs
    /\ pipeline = "rt_capture"
    /\ rt = RtStartBridge(NewRtBridge)
    /\ call = NewCall(8000)
    /\ pending_responses = <<>>
    /\ io = NewReader(100)
    /\ md = NewMd("none")
    /\ h_events = 0
    /\ h_enq = <<>>
    /\ h_deq = <<>>
    /\ h_play = <<>>

NextCapture ==
    \/ \E n \in {0, 3, 4, 9} : IoRead(n)
    \/ IoSendFrame
    \/ \E ok \in BOOLEAN : RtConnect(ok)
    \/ RtSenderWaitEnd
    \/ \E result \in {"ok", "closed", "error"} : RtSenderStep(result)

SpecCapture == InitCapture /\ [][NextCapture]_vars

\* The streaming I/O thread and the stop signal: onCallMediaState has set up
\* the media, started the bridge and the I/O thread; the main thread only
\* delivers the disconnection.
InitIoStop ==
    /\ InitSeg
    /\ seg_silence_duration_ms = FrameMs
    /\ pipeline = "rt"
    /\ rt = RtStartBridge(NewRtBridge)
    /\ call = [NewCall(8000) EXCEPT !.aud_med = TRUE, !.media_setup_done = TRUE,
                                    !.bridge_threads = 1, !.io_threads = 1]
    /\ pending_responses = <<>>
    /\ io = NewIo("wait_file")
    /\ md = NewMd("events")
    /\ h_events = 0
    /\ h_enq = <<>>
    /\ h_deq = <<>>
    /\ h_play = <<>>

NextIoStop ==
    \/ \E ok \in BOOLEAN : RtConnect(ok)
    \/ RtSenderWaitEnd
    \/ \E result \in {"ok", "closed", "error"} : RtSenderStep(result)
    \/ \E event \in CallProviderEvents : RtReceive(event)
    \/ RtReceiverClosed
    \/ RtMainExit
    \/ \E ok \in BOOLEAN : IoOpen(ok)
    \/ IoRtLoop
    \/ IoRtTop
    \/ IoRtCaptureEnd
    \/ IoRtDrain
    \/ \E timed_out \in BOOLEAN : IoRtFlush(timed_out)
    \/ IoRtClearDone
    \/ IoRtFinalPoll
    \/ IoRtFinalWait
    \/ IoRtFinalPut
    \/ MdDisconnected
    \/ MdCleanup

\* The I/O thread is a thread of its own whose steps only poll and sleep
\* for bounded times: it is scheduled again and again, whatever the bridge's
\* threads and the main thread do.
SpecIoStop ==
    /\ InitIoStop
    /\ [][NextIoStop]_vars
    /\ WF_vars(\/ \E ok \in BOOLEAN : IoOpen(ok)
               \/ IoRtLoop \/ IoRtTop \/ IoRtCaptureEnd \/ IoRtDrain
               \/ \E timed_out \in BOOLEAN : IoRtFlush(timed_out)
               \/ IoRtClearDone \/ IoRtFinalPoll \/ IoRtFinalWait
               \/ IoRtFinalPut)

\* The capture path of either application up to send_pcm, for capture
\* files whose 20 ms frame is 3 bytes (75 Hz), 4 bytes (100 Hz), 441 bytes
\* (11025 Hz) and 640 bytes (16000 Hz), and calls at 8000 and 16000 Hz.  A
\* read returns one frame, or two frames and a byte.
InitFrame ==
    /\ InitSeg
    /\ seg_silence_duration_ms = FrameMs
    /\ pipeline \in {"rt_capture", "seg_capture"}
    /\ rt = IF pipeline = "rt_capture" THEN RtStartBridge(NewRtBridge) ELSE NewRtBridge
    /\ call \in {NewCall(rate) : rate \in {8000, 16000}}
    /\ pending_responses = <<>>
    /\ io \in {NewReader(rate) : rate \in {75, 100, 11025, 16000}}
    /\ md = NewMd("none")
    /\ h_events = 0
    /\ h_enq = <<>>
    /\ h_deq = <<>>
    /\ h_play = <<>>

NextFrame ==
    \/ \E n \in {io.frame_bytes_file, 2 * io.frame_bytes_file + 1} : IoRead(n)
    \/ IoSendFrame

SpecFrame == InitFrame /\ [][NextFrame]_vars

\* The main thread of a call with its clock: the media is set up, the I/O
\* thread has queued one or two responses of 4 or 30 bytes (20 and 150 ms at
\* the call's 100 Hz) and is not scheduled again; the remote party may end
\* the call at any time.
InitPlay ==
    /\ InitSeg
    /\ seg_silence_duration_ms = FrameMs
    /\ pipeline = "play"
    /\ rt = RtStartBridge(NewRtBridge)
    /\ call = [NewCall(100) EXCEPT !.aud_med = TRUE, !.media_setup_done = TRUE,
                                   !.bridge_threads = 1, !.io_threads = 1]
    /\ \E lens \in UNION {[1..n -> {4, 30}] : n \in 1..2} :
          /\ pending_responses =
                [k \in 1..Len(lens) |-> PendingResponse(LongPcm(lens[k]), k - 1)]
          /\ h_enq = [k \in 1..Len(lens) |-> k - 1]
          /\ io = [NewIo("loop") EXCEPT !.response_counter = Len(lens)]
    /\ md = NewMd("events")
    /\ h_events = 0
    /\ h_deq = <<>>
    /\ h_play = <<>>

NextPlay ==
    \/ RemoteBye
    \/ MdNoEvent
    \/ MdDisconnected
    \/ MdCleanup
    \/ \E outcome \in {"ok", "wav_error", "player_error"} : MdGet(outcome)
    \/ MdPlayPoll
    \/ MdPlayEnd

SpecPlay == InitPlay /\ [][NextPlay]_vars

\* Length of the longest byte string handed to _resample_pcm.
MaxResampleBytes == 24

\* _resample_pcm on its own: a caller holds a byte string of any length up
\* to the bound, even or odd, and two of the rates the pipelines work at.
InitResample ==
    /\ InitSeg
    /\ seg_silence_duration_ms = FrameMs
    /\ pipeline = "resample"
    /\ rt = NewRtBridge
    /\ call = NewCall(8000)
    /\ pending_responses = <<>>
    /\ \E n \in 0..MaxResampleBytes : \E src_rate, dst_rate \in {8000, 16000, 24000} :
          io = [pc |-> "call", impl |-> "none", pcm_data |-> LongPcm(n),
                src_rate |-> src_rate, dst_rate |-> dst_rate, result |-> <<>>]
    /\ md = NewMd("none")
    /\ h_events = 0
    /\ h_enq = <<>>
    /\ h_deq = <<>>
    /\ h_play = <<>>

\* One call of _resample_pcm: impl "seg" is the method of
\* WhisperAssistantBridge, impl "app" the function of app_ai_realtime_call.
ResampleCall(impl) ==
    /\ pipeline = "resample"
    /\ io.pc = "call"
    /\ io' = [io EXCEPT !.pc = "returned", !.impl = impl,
                        !.result = IF impl = "seg"
                                   THEN SegResamplePcm(io.pcm_data, io.src_rate, io.dst_rate)
                                   ELSE AppResamplePcm(io.pcm_data, io.src_rate, io.dst_rate)]
    /\ h_last' = NoSend
    /\ UNCHANGED <<seg_vars, pipeline, rt, call, pending_responses, md,
                   h_events, h_enq, h_deq, h_play>>

NextResample == \E impl \in {"seg", "app"} : ResampleCall(impl)

SpecResample == InitResample /\ [][NextResample]_vars

\* No call: one of the two bridges is driven directly.
InitNoCall ==
    /\ pipeline \in {"bridge_seg", "bridge_rt"}
    /\ rt = NewRtBridge
    /\ call = NewCall(8000)
    /\ pending_responses = <<>>
    /\ io = NewIo("none")
    /\ md = NewMd("none")
    /\ h_events = 0
    /\ h_enq = <<>>
    /\ h_deq = <<>>
    /\ h_play = <<>>

\* Either bridge, constructed and driven directly.
InitBridge == InitSeg /\ InitNoCall

\* The segmented bridge, constructed and driven directly.
InitSegBridge == InitBridge /\ pipeline = "bridge_seg"

\* A call of either application, as run_call has placed it.
InitCall ==
    /\ pipeline \in {"rt", "seg"}
    /\ rt = NewRtBridge
    /\ call \in {NewCall(rate) : rate \in CallRates}
    /\ pending_responses = <<>>
    /\ io = NewIo("none")
    /\ md = NewMd("events")
    /\ h_events = 0
    /\ h_enq = <<>>
    /\ h_deq = <<>>
    /\ h_play = <<>>

\* The bridge constructed by the application, and the call placed.
InitAiCall == InitSeg /\ InitCall

\* The segmented bridge alone: its callers and its worker.
NextSeg ==
    \/ pipeline = "bridge_seg" /\ SegStart /\ UNCHANGED call_vars
    \/ pipeline = "bridge_seg" /\ SegStop /\ UNCHANGED call_vars
    \/ \E data \in Frames \cup {EmptyFrame} :
          pipeline = "bridge_seg" /\ SegSendPcm(data) /\ UNCHANGED call_vars
    \/ pipeline = "bridge_seg" /\ SegRecvPcm /\ UNCHANGED call_vars
    \/ SegMainCheck /\ UNCHANGED call_vars
    \/ SegMainGet /\ UNCHANGED call_vars
    \/ \E outcome \in TextOutcomes : SegTranscribeReturn(outcome) /\ UNCHANGED call_vars
    \/ \E outcome \in TextOutcomes : SegChatReturn(outcome) /\ UNCHANGED call_vars
    \/ \E outcome \in TtsOutcomes : SegTtsReturn(outcome) /\ UNCHANGED call_vars
    \/ SegEnqueueChunk /\ UNCHANGED call_vars

SpecSeg == InitSegBridge /\ [][NextSeg]_vars

\* The segmented bridge alone, constructed with a silence duration below
\* or at the 300 ms of the minimum-length check (line 220).
InitSegVad ==
    /\ seg_input_q = <<>>
    /\ seg_output_q = <<>>
    /\ seg_audio_buffer = <<>>
    /\ seg_silence_frames = 0
    /\ seg_speech_detected = FALSE
    /\ seg_processing = FALSE
    /\ seg_messages = <<Turn("system", SystemMessage)>>
    /\ seg_stop_event = FALSE
    /\ seg_silence_duration_ms \in {2 * FrameMs, 3 * FrameMs}
    /\ seg_sample_rate \in SegRates
    /\ seg_pc = "not_started"
    /\ seg_tts = <<>>
    /\ h_sent = 0
    /\ h_vad_in = <<>>
    /\ h_log = <<>>
    /\ h_cur = CurRecord(seg_messages, <<>>, TRUE)
    /\ h_last = NoSend
    /\ pipeline = "bridge_seg"
    /\ rt = NewRtBridge
    /\ call = NewCall(8000)
    /\ pending_responses = <<>>
    /\ io = NewIo("none")
    /\ md = NewMd("none")
    /\ h_events = 0
    /\ h_enq = <<>>
    /\ h_deq = <<>>
    /\ h_play = <<>>

SpecSegVad == InitSegVad /\ [][NextSeg]_vars

\* Either bridge alone: its callers, its thread and, for the streaming
\* bridge, its two tasks.
NextBridge ==
    \/ pipeline = "bridge_seg" /\ SegStart /\ UNCHANGED call_vars
    \/ pipeline = "bridge_seg" /\ SegStop /\ UNCHANGED call_vars
    \/ \E data \in CallFrames \cup {EmptyFrame} :
          pipeline = "bridge_seg" /\ SegSendPcm(data) /\ UNCHANGED call_vars
    \/ pipeline = "bridge_seg" /\ SegRecvPcm /\ UNCHANGED call_vars
    \/ SegMainCheck /\ UNCHANGED call_vars
    \/ SegMainGet /\ UNCHANGED call_vars
    \/ \E outcome \in CallTextOutcomes : SegTranscribeReturn(outcome) /\ UNCHANGED call_vars
    \/ \E outcome \in CallTextOutcomes : SegChatReturn(outcome) /\ UNCHANGED call_vars
    \/ \E outcome \in CallTtsOutcomes : SegTtsReturn(outcome) /\ UNCHANGED call_vars
    \/ SegEnqueueChunk /\ UNCHANGED call_vars
    \/ RtStart
    \/ RtStop
    \/ \E data \in CallFrames \cup {EmptyFrame} : RtSendPcm(data)
    \/ RtRecvPcm
    \/ \E ok \in BOOLEAN : RtConnect(ok)
    \/ RtSenderWaitEnd
    \/ \E result \in {"ok", "closed", "error"} : RtSenderStep(result)
    \/ \E event \in ProviderEvents : RtReceive(event)
    \/ RtReceiverClosed
    \/ RtMainExit

SpecBridge == InitBridge /\ [][NextBridge]_vars

\* What the worker threads do without anything else having to happen: the
\* streaming bridge's connection attempt ends, the sender's wait for
\* session-ready ends (it has a 5 s timeout), _main's 50 ms poll sees the
\* stop event; the segmented worker polls its queue with a timeout and each
\* provider request it has issued returns or raises.
BridgeFairness ==
    /\ WF_vars(\E ok \in BOOLEAN : RtConnect(ok))
    /\ WF_vars(RtSenderWaitEnd)
    /\ WF_vars(RtMainExit)
    /\ WF_vars(SegMainCheck /\ UNCHANGED call_vars)
    /\ WF_vars(SegMainGet /\ UNCHANGED call_vars)
    /\ WF_vars(\E outcome \in CallTextOutcomes :
                  SegTranscribeReturn(outcome) /\ UNCHANGED call_vars)
    /\ WF_vars(\E outcome \in CallTextOutcomes :
                  SegChatReturn(outcome) /\ UNCHANGED call_vars)
    /\ WF_vars(\E outcome \in CallTtsOutcomes :
                  SegTtsReturn(outcome) /\ UNCHANGED call_vars)
    /\ WF_vars(SegEnqueueChunk /\ UNCHANGED call_vars)

InitBridgeFair == InitBridge /\ seg_silence_duration_ms = 2 * FrameMs

SpecBridgeFair == InitBridgeFair /\ [][NextBridge]_vars /\ BridgeFairness

\* The streaming bridge alone with its receiver watched: constructed with
\* auto_response set or not and given, or not, one frame by send_pcm, then
\* started and stopped by its caller while the provider sends events of
\* every type the receiver tells apart.
InitRecv ==
    /\ InitSeg
    /\ seg_silence_duration_ms = 2 * FrameMs
    /\ pipeline = "bridge_recv"
    /\ rt \in {[NewRtBridge EXCEPT !.auto_response = a, !.input_q = q] :
                a \in BOOLEAN,
                q \in {<<>>, RtSendPcmQ(<<>>, [amp |-> 328, ms |-> 2 * FrameMs])}}
    /\ call = NewCall(8000)
    /\ pending_responses = <<>>
    /\ io = NewIo("none")
    /\ md = NewMd("none")
    /\ h_events = 0
    /\ h_enq = <<>>
    /\ h_deq = <<>>
    /\ h_play = <<>>

NextRecv ==
    \/ RtStart
    \/ RtStop
    \/ \E ok \in BOOLEAN : RtConnect(ok)
    \/ RtSenderWaitEnd
    \/ \E result \in {"ok", "closed"} : RtSenderStep(result)
    \/ \E event \in {Event(t) : t \in {"unparsable", "session.updated", "error",
                                        "input_audio_buffer.speech_started",
                                        "input_audio_buffer.speech_stopped",
                                        "response.created", "response.done",
                                        "response.output_audio.done"}}
                      \cup {[type |-> "response.output_audio.delta",
                              valid |-> v, delta |-> <<1, 0, 2, 0, 3, 0>>] :
                                v \in BOOLEAN} :
          RtReceive(event)
    \/ RtReceiverClosed
    \/ RtMainExit

SpecRecv == InitRecv /\ [][NextRecv]_vars

\* The segmented bridge alone, with text requests that succeed and speech of
\* many chunks.
SpokenTextOutcomes == {[kind |-> "text", value |-> <<"h">>]}

InitSegLong == InitSegBridge /\ seg_silence_duration_ms = 2 * FrameMs

NextSegLong ==
    \/ pipeline = "bridge_seg" /\ SegStart /\ UNCHANGED call_vars
    \/ pipeline = "bridge_seg" /\ SegStop /\ UNCHANGED call_vars
    \/ \E data \in CallFrames :
          pipeline = "bridge_seg" /\ SegSendPcm(data) /\ UNCHANGED call_vars
    \/ pipeline = "bridge_seg" /\ SegRecvPcm /\ UNCHANGED call_vars
    \/ SegMainCheck /\ UNCHANGED call_vars
    \/ SegMainGet /\ UNCHANGED call_vars
    \/ \E outcome \in SpokenTextOutcomes : SegTranscribeReturn(outcome) /\ UNCHANGED call_vars
    \/ \E outcome \in SpokenTextOutcomes : SegChatReturn(outcome) /\ UNCHANGED call_vars
    \/ \E outcome \in LongTtsOutcomes : SegTtsReturn(outcome) /\ UNCHANGED call_vars
    \/ SegEnqueueChunk /\ UNCHANGED call_vars

SpecSegLong == InitSegLong /\ [][NextSegLong]_vars

\* A call: the bridge's threads, the I/O thread and the main thread.
NextCall ==
    \/ \E ok \in BOOLEAN : RtConnect(ok)
    \/ RtSenderWaitEnd
    \/ \E result \in {"ok", "closed", "error"} : RtSenderStep(result)
    \/ \E event \in CallProviderEvents : RtReceive(event)
    \/ RtReceiverClosed
    \/ RtMainExit
    \/ SegMainCheck /\ UNCHANGED call_vars
    \/ SegMainGet /\ UNCHANGED call_vars
    \/ \E outcome \in CallTextOutcomes : SegTranscribeReturn(outcome) /\ UNCHANGED call_vars
    \/ \E outcome \in CallTextOutcomes : SegChatReturn(outcome) /\ UNCHANGED call_vars
    \/ \E outcome \in CallTtsOutcomes : SegTtsReturn(outcome) /\ UNCHANGED call_vars
    \/ SegEnqueueChunk /\ UNCHANGED call_vars
    \/ \E ok \in BOOLEAN : IoOpen(ok)
    \/ IoRtLoop
    \/ IoRtTop
    \/ IoRtCaptureEnd
    \/ IoRtDrain
    \/ \E timed_out \in BOOLEAN : IoRtFlush(timed_out)
    \/ IoRtClearDone
    \/ IoRtFinalPoll
    \/ IoRtFinalWait
    \/ IoRtFinalPut
    \/ IoBotLoop
    \/ \E frame \in CallFrames : IoBotSendFrame(frame)
    \/ IoBotCaptureEnd
    \/ IoBotDrain
    \/ IoBotTrailing
    \/ IoBotPut
    \/ MdNoEvent
    \/ \E ok \in BOOLEAN : MdMediaActive(ok)
    \/ MdDisconnected
    \/ MdCleanup
    \/ \E outcome \in {"ok", "wav_error", "player_error"} : MdGet(outcome)
    \/ MdPlayEnd

SpecCall == InitAiCall /\ [][NextCall]_vars

-----------------------------------------------------------------------------
(* Both bridges: the queues never block their producers *)

\* What put_nowait with the overflow dropped leaves in a queue of the given
\* capacity.
DropOnFull(q, capacity, x) == IF Len(q) < capacity THEN Append(q, x) ELSE q

\* C1: send_pcm of either bridge returns having appended the frame at the
\* tail of the input queue when the queue held fewer items than its capacity,
\* and having left the queue as it was (the frame discarded) when it was
\* full; the streaming receiver does the same with an audio delta and the
\* output queue.  (A frame is a non-empty byte string.)
C1_SendPcmDropsOnFull ==
    [][/\ (h_last'.op = "seg_send_pcm" /\ h_last'.data.ms > 0)
            => seg_input_q' = DropOnFull(seg_input_q, SegInputQMax, h_last'.data)
       /\ (h_last'.op = "rt_send_pcm" /\ h_last'.data.ms > 0)
            => rt'.input_q = DropOnFull(rt.input_q, RtInputQMax, h_last'.data)
       /\ h_last'.op = "rt_delta"
            => rt'.output_q = DropOnFull(rt.output_q, RtOutputQMax, h_last'.data)
      ]_vars

\* A frame has just been offered to the streaming bridge whose input queue
\* was full, and the queue is still full.
C1_Witness ==
    /\ h_last.op = "rt_send_pcm"
    /\ h_last.data.ms > 0
    /\ h_last.qlen = RtInputQMax
    /\ Len(rt.input_q) = RtInputQMax

-----------------------------------------------------------------------------
(* The call: hand-off of the responses and their playback *)

\* C2: the indices the I/O thread has enqueued are 0, 1, 2, ... in this
\* order (none used twice, the final flush included), and the main thread has
\* taken the responses from the queue in that same order.
C2_IndicesIncreasingInOrder ==
    /\ \A k \in 1..Len(h_enq) : h_enq[k] = k - 1
    /\ Len(h_deq) <= Len(h_enq)
    /\ \A k \in 1..Len(h_deq) : h_deq[k].index = h_enq[k]
    /\ \A k \in 1..Len(pending_responses) :
          pending_responses[k].index = h_enq[Len(h_deq) + k]

\* Two responses of the streaming pipeline have been enqueued and both have
\* been taken for playback.
C2_Witness ==
    /\ pipeline = "rt"
    /\ Len(h_enq) >= 2
    /\ Len(h_deq) >= 2
    /\ \A k \in 1..2 : h_deq[k].by = "play"

\* C3: at most one response player is attached to the call's output; a
\* player is attached only when every earlier one has been detached, and
\* outside the wait loop of _play_response (which ends, by deadline or by the
\* stop signal, in the detach) none is attached.
C3_PlaybackNeverOverlaps ==
    /\ Cardinality(md.attached) <= 1
    /\ md.pc # "wait" => md.attached = {}
    /\ md.pc = "wait" => md.attached = {md.cur.index}
    /\ \A k \in 1..Len(h_play) :
          IF k % 2 = 1
          THEN h_play[k].ev = "attach"
          ELSE h_play[k].ev = "detach" /\ h_play[k].index = h_play[k - 1].index
    /\ Len(h_play) % 2 = (IF md.pc = "wait" THEN 1 ELSE 0)

\* A second response is being played after the first one's player has been
\* detached.
C3_Witness ==
    /\ md.pc = "wait"
    /\ Len(h_play) = 3
    /\ h_play[2].ev = "detach"
    /\ h_play[3].ev = "attach"
    /\ h_play[3].index # h_play[1].index

\* C4: when the streaming I/O loop observes response-done with a non-empty
\* accumulation buffer, it enqueues exactly one PendingResponse, holding the
\* accumulated bytes resampled from 24 kHz to the call's rate; the buffer is
\* then empty, and the response-done signal is cleared next.
C4_FlushOnResponseDone ==
    [][/\ (/\ pipeline = "rt"
           /\ io.pc = "decide"
           /\ io'.pc # "decide"
           /\ rt.response_done
           /\ io.accumulated # <<>>)
            => /\ pending_responses' =
                    Append(pending_responses,
                           PendingResponse(AppResamplePcm(io.accumulated,
                                                          OpenAiSampleRate,
                                                          call.sample_rate),
                                           io.response_counter))
               /\ io'.accumulated = <<>>
               /\ io'.pc = "clear"
       /\ (pipeline = "rt" /\ io.pc = "clear" /\ io'.pc # "clear")
            => ~rt'.response_done
      ]_vars

\* The loop has just flushed on response-done: the response it enqueued is
\* still the last of the queue, and the signal is about to be cleared.
C4_Witness ==
    /\ pipeline = "rt"
    /\ io.pc = "clear"
    /\ io.response_complete
    /\ io.accumulated = <<>>
    /\ pending_responses # <<>>
    /\ Last(pending_responses).index = io.response_counter - 1
    /\ Last(pending_responses).pcm # <<>>

-----------------------------------------------------------------------------
(* Segmented bridge: properties of the VAD (checked under SpecSeg) *)

\* A chunk is silent when its level is below -40 dBFS (327.68 of 32768).
SilentFrame(f) == f.amp * 100 < 32768

Thr == seg_silence_duration_ms

\* The indices of h_vad_in at which segment-ready was signalled.
ReadyAt == {h_log[k].at : k \in 1..Len(h_log)}

\* Total duration of the chunks h_vad_in[a..b].
SpanMs(a, b) == SumMs(SubSeq(h_vad_in, a, b))

\* The VAD is idle when chunk i arrives: since the last segment-ready (or
\* the start) only silent chunks have been seen.
IdleBefore(i) ==
    \E k \in (ReadyAt \cup {0}) :
        /\ k < i
        /\ \A x \in (k + 1)..(i - 1) : SilentFrame(h_vad_in[x]) /\ x \notin ReadyAt

\* Chunks i..m are speech, chunks m+1..j are silence, and chunk j is the one
\* that brings the silence to the threshold.
SpeechThenSilence(i, m, j) ==
    /\ 1 <= i /\ i <= m /\ m < j /\ j <= Len(h_vad_in)
    /\ IdleBefore(i)
    /\ \A x \in i..m : ~SilentFrame(h_vad_in[x])
    /\ \A x \in (m + 1)..j : SilentFrame(h_vad_in[x])
    /\ SpanMs(m + 1, j) >= Thr
    /\ SpanMs(m + 1, j - 1) < Thr

VadIdle ==
    /\ seg_speech_detected = FALSE
    /\ seg_audio_buffer = <<>>
    /\ seg_silence_frames = 0

\* C5: N >= 1 speech chunks followed by silence that reaches
\* silence_duration_ms signal segment-ready exactly once, on the chunk that
\* brings the silence to the threshold; the buffer handed over is the speech
\* chunks and the silent chunks up to and including that one; the VAD is then
\* idle and the silent chunks that follow signal nothing.
C5_SegmentReadyOnce ==
    \A i \in 1..Len(h_vad_in) : \A m \in i..Len(h_vad_in) : \A j \in (m + 1)..Len(h_vad_in) :
        SpeechThenSilence(i, m, j) =>
            /\ ReadyAt \cap (i..j) = {j}
            /\ Cardinality({k \in 1..Len(h_log) : h_log[k].at = j}) = 1
            /\ \A k \in 1..Len(h_log) :
                   h_log[k].at = j => h_log[k].audio = SubSeq(h_vad_in, i, j)
            /\ (Len(h_vad_in) = j => VadIdle)
            /\ \A x \in (j + 1)..Len(h_vad_in) :
                   (\A y \in (j + 1)..x : SilentFrame(h_vad_in[y]))
                       => (x \notin ReadyAt /\ (Len(h_vad_in) = x => VadIdle))

\* Witness of C5: two speech chunks, silence reaching the threshold, the
\* segment-ready signal, and one more silent chunk after it.
C5_Witness ==
    \E i \in 1..Len(h_vad_in) : \E j \in (i + 2)..Len(h_vad_in) :
        /\ SpeechThenSilence(i, i + 1, j)
        /\ j \in ReadyAt
        /\ Len(h_vad_in) > j
        /\ SilentFrame(h_vad_in[j + 1])

\* The trailing silence at chunk j: the silent chunks since the last speech
\* chunk.
LastSpeechBefore(j) ==
    LET S == {x \in 1..j : ~SilentFrame(h_vad_in[x])}
    IN  IF S = {} THEN 0 ELSE CHOOSE x \in S : \A y \in S : y <= x

\* C6: segment-ready is signalled only on a silent chunk, after speech has
\* been detected, when the silence accumulated since the last speech chunk
\* has reached silence_duration_ms; a speech chunk resets the accumulator, so
\* chunks that are all above threshold never signal segment-ready.
C6_ReadyOnlyAfterSilence ==
    /\ \A j \in ReadyAt :
          /\ SilentFrame(h_vad_in[j])
          /\ LastSpeechBefore(j) > 0
          /\ ReadyAt \cap (LastSpeechBefore(j)..(j - 1)) = {}
          /\ SpanMs(LastSpeechBefore(j) + 1, j) >= Thr
    /\ (h_vad_in # <<>> /\ ~SilentFrame(Last(h_vad_in)))
          => (seg_silence_frames = 0 /\ seg_speech_detected)
    /\ (\A x \in 1..Len(h_vad_in) : ~SilentFrame(h_vad_in[x])) => h_log = <<>>

\* Witness of C6: speech, silence shorter than the threshold, speech again
\* (which resets the accumulator), then silence that signals only once it has
\* reached the threshold by itself.
C6_Witness ==
    \E j \in ReadyAt :
        /\ LastSpeechBefore(j) >= 3
        /\ SilentFrame(h_vad_in[LastSpeechBefore(j) - 1])
        /\ ~SilentFrame(h_vad_in[LastSpeechBefore(j) - 2])
        /\ SpanMs(LastSpeechBefore(j) - 1, LastSpeechBefore(j) - 1)
              + SpanMs(LastSpeechBefore(j) + 1, j - 1) >= Thr

-----------------------------------------------------------------------------
(* Segmented bridge: properties of segment processing (checked under SpecSeg) *)

\* The last segment signalled and its duration in ms.
LastSegment == Last(h_log)
SegmentMs == SumMs(LastSegment.audio)
MinSegmentMs == 300

\* Nothing was done for the last segment signalled.
Discarded ==
    /\ h_cur.calls = <<>>
    /\ h_cur.offered = 0 /\ h_cur.enqueued = 0
    /\ seg_messages = h_cur.msgs0
    /\ (Len(h_vad_in) = LastSegment.at => VadIdle)

\* C7 (as stated): a segment shorter than 300 ms is discarded (no request,
\* nothing enqueued, conversation unchanged, VAD idle), and a segment of
\* exactly 300 ms or more is not discarded.
C7_Min300msKept ==
    h_log # <<>> =>
        /\ (SegmentMs < MinSegmentMs => Discarded)
        /\ (SegmentMs >= MinSegmentMs => h_cur.calls # <<>>)

\* C7 (what the code does): a segment is discarded when it holds 300 ms of
\* audio or less, and processed when it holds more than 300 ms.
C7_DiscardedUpTo300ms ==
    h_log # <<>> =>
        /\ (SegmentMs <= MinSegmentMs => Discarded)
        /\ (SegmentMs > MinSegmentMs => h_cur.calls # <<>>)

\* Witness of C7: a segment of exactly 300 ms was signalled and discarded.
C7_Witness ==
    /\ h_log # <<>>
    /\ SegmentMs = MinSegmentMs
    /\ h_cur.calls = <<>>

\* The transcription (reasoning) of the last segment has returned blank:
\* the request raised, returned nothing, or returned empty or whitespace-only
\* text.
SttBlank == h_cur.stt # <<>> /\ h_cur.stt[1].text = <<>>
ChatBlank == h_cur.chat # <<>> /\ h_cur.chat[1].text = <<>>

\* C8: when the transcription of a segment is empty or whitespace-only, or
\* the transcription request fails, no reasoning and no synthesis request is
\* made, nothing is offered to the output queue, and the conversation is what
\* it was before the segment.
C8_BlankTranscriptDiscarded ==
    SttBlank =>
        /\ h_cur.calls = <<"stt">>
        /\ h_cur.chat = <<>> /\ h_cur.tts = <<>>
        /\ h_cur.offered = 0 /\ h_cur.enqueued = 0
        /\ seg_messages = h_cur.msgs0
        /\ h_cur.done

\* Witness of C8: a transcription that returned whitespace only, in a
\* conversation that already holds an earlier exchange.
C8_Witness ==
    /\ SttBlank
    /\ h_cur.stt[1].whitespace
    /\ Len(h_cur.msgs0) > 1

\* C9 (as stated): when the reasoning request returns an empty response or
\* fails, no synthesis request is made, nothing is enqueued, and the
\* conversation equals the one from before the segment.
C9_BlankResponseHistoryRestored ==
    ChatBlank =>
        /\ "tts" \notin {h_cur.calls[k] : k \in 1..Len(h_cur.calls)}
        /\ h_cur.offered = 0 /\ h_cur.enqueued = 0
        /\ seg_messages = h_cur.msgs0

\* C9 (what the code does): no synthesis request is made and nothing is
\* enqueued, but the conversation keeps the user turn of the segment.
C9_BlankResponseKeepsUserTurn ==
    ChatBlank =>
        /\ h_cur.calls = <<"stt", "chat">>
        /\ h_cur.tts = <<>>
        /\ h_cur.offered = 0 /\ h_cur.enqueued = 0
        /\ seg_messages = Append(h_cur.msgs0, Turn("user", h_cur.stt[1].text))
        /\ h_cur.done

\* Witness of C9: the reasoning request of a segment has raised.
C9_Witness ==
    /\ ChatBlank
    /\ h_cur.chat[1].kind = "raise"
    /\ Len(seg_messages) = Len(h_cur.msgs0) + 1

\* C10: once transcription and reasoning of a segment have both returned
\* non-empty text, the conversation is the one from before the segment
\* followed by exactly two turns: the user turn with the transcript, then the
\* assistant turn with the response.  Until the reasoning has returned, only
\* the user turn has been added.
C10_TwoTurnsAppended ==
    /\ (h_cur.chat # <<>> /\ h_cur.chat[1].text # <<>>) =>
           /\ h_cur.stt[1].text # <<>>
           /\ seg_messages = h_cur.msgs0 \o
                  <<Turn("user", h_cur.stt[1].text),
                    Turn("assistant", h_cur.chat[1].text)>>
    /\ (h_cur.stt # <<>> /\ h_cur.stt[1].text # <<>> /\ h_cur.chat = <<>>) =>
           seg_messages = Append(h_cur.msgs0, Turn("user", h_cur.stt[1].text))

\* Witness of C10: a full cycle has completed: both texts were non-empty and
\* the synthesized audio was offered to the output queue.
C10_Witness ==
    /\ h_cur.chat # <<>> /\ h_cur.chat[1].text # <<>>
    /\ h_cur.offered > 0
    /\ h_cur.done
    /\ Len(seg_messages) = Len(h_cur.msgs0) + 2

-----------------------------------------------------------------------------
(* C11 *)

RECURSIVE Flatten(_)
Flatten(ss) == IF ss = <<>> THEN <<>> ELSE Head(ss) \o Flatten(Tail(ss))

ChunkData(chunks) == [k \in 1..Len(chunks) |-> chunks[k].data]

\* The chunks offered so far are consecutive pieces of the resampled PCM r,
\* each chunk_size bytes long except a shorter piece that ends r.
ChunksOf(chunks, r, chunk_size) ==
    LET cat == Flatten(ChunkData(chunks))
    IN  /\ Len(cat) <= Len(r)
        /\ cat = SubSeq(r, 1, Len(cat))
        /\ \A k \in 1..Len(chunks) :
              \/ Len(chunks[k].data) = chunk_size
              \/ /\ k = Len(chunks)
                 /\ Len(cat) = Len(r)
                 /\ Len(chunks[k].data) \in 1..chunk_size

\* C11: (segmented bridge) every step of _text_to_speech that offers a chunk
\* offers the next piece of the resampled PCM: the chunks offered so far,
\* concatenated in order, are a prefix of the resampled PCM and, once the
\* last one has been offered, all of it; every chunk but possibly the last is
\* sample_rate * 2 / 50 bytes long; and the chunk is appended to the output
\* queue unless the queue was full when it was offered, whatever the
\* consumer has taken from the queue in between.
C11_ChunksAreResampledPcm ==
    [][h_cur'.offered = h_cur.offered + 1 =>
         LET r == SegResamplePcm(h_cur'.pcm_24k, 24000, seg_sample_rate)
             chunk_size == (seg_sample_rate * 2) \div 50
             chunk == Last(h_cur'.chunks).data
         IN  /\ h_cur'.tts = <<"pcm">>
             /\ ChunksOf(h_cur'.chunks, r, chunk_size)
             /\ h_cur'.done <=> Flatten(ChunkData(h_cur'.chunks)) = r
             /\ seg_output_q' = IF Len(seg_output_q) >= SegOutputQMax
                                THEN seg_output_q
                                ELSE Append(seg_output_q, chunk)]_vars

\* A synthesis of four chunks, the last one shorter, all of them accepted
\* because the consumer emptied the queue in between.
C11_Witness ==
    /\ h_cur.tts = <<"pcm">>
    /\ h_cur.done
    /\ Len(h_cur.chunks) = 4
    /\ Len(h_cur.chunks[4].data) < (seg_sample_rate * 2) \div 50
    /\ \A k \in 1..4 : h_cur.chunks[k].qlen < SegOutputQMax
    /\ h_cur.chunks[4].qlen = 0

-----------------------------------------------------------------------------
(* C12 *)

SttFailed(c) == c.stt # <<>> /\ c.stt[1].kind = "raise"
ChatFailed(c) == c.chat # <<>> /\ c.chat[1].kind = "raise"

\* The turns _process_speech had appended when the request that failed was
\* issued.
TurnsBeforeFailure(c) ==
    IF SttFailed(c) THEN <<>>
    ELSE IF ChatFailed(c) THEN <<Turn("user", c.stt[1].text)>>
    ELSE <<Turn("user", c.stt[1].text), Turn("assistant", c.chat[1].text)>>

\* C12: (segmented bridge) a transcription, chat or speech request that fails
\* aborts only its segment: the worker leaves its loop only when the stop event
\* is set; at the step where the request fails the processing flag is
\* cleared, the worker is back at the top of its loop and the conversation is
\* the one the segment started with plus the turns appended before the
\* failing request; and the next segment signalled by the VAD is taken and,
\* when it is long enough, its transcription is requested with that
\* conversation.
C12_FailureAbortsOnlySegment ==
    [][/\ seg_pc' = "exited" => seg_stop_event
       /\ (~h_cur.done /\ SegmentFailed(h_cur')) =>
             /\ seg_processing' = FALSE
             /\ seg_pc' = "loop"
             /\ seg_messages' = h_cur'.msgs0 \o TurnsBeforeFailure(h_cur')
       /\ (SegmentFailed(h_cur) /\ Len(h_log') = Len(h_log) + 1) =>
             /\ seg_messages' = h_cur.msgs0 \o TurnsBeforeFailure(h_cur)
             /\ h_cur'.msgs0 = seg_messages'
             /\ IF LongEnough(Last(h_log').audio, seg_sample_rate)
                THEN /\ seg_processing' /\ seg_pc' = "transcribe"
                     /\ h_cur'.calls = <<"stt">> /\ ~h_cur'.done
                ELSE /\ ~seg_processing' /\ seg_pc' = "loop"
                     /\ h_cur'.calls = <<>>]_vars

\* The chat request of the first segment failed, leaving its user turn; the
\* second segment was then transcribed, answered and spoken.
C12_Witness ==
    /\ Len(h_log) = 2
    /\ h_cur.after_failure
    /\ Len(seg_messages) = 4
    /\ seg_messages[2].role = "user" /\ seg_messages[3].role = "user"
    /\ h_cur.msgs0 = SubSeq(seg_messages, 1, 2)
    /\ h_cur.done /\ h_cur.tts = <<"pcm">> /\ h_cur.enqueued > 0
    /\ seg_pc # "exited" /\ ~seg_processing

-----------------------------------------------------------------------------
(* C13 *)

\* C13: (both bridges) once stop() has set the stop event, the worker thread
\* terminates: the streaming bridge's thread whether it is still connecting,
\* its sender is still waiting for session-ready or is sending, and the
\* segmented worker whether it is polling its queue or inside a provider
\* request.  (stop() itself, send_pcm and recv_pcm are single steps: the
\* join, put_nowait and get have no unbounded wait.)
C13_StopTerminatesWorker ==
    /\ (rt.stop_event /\ RtThreadAlive(rt)) ~> ~RtThreadAlive(rt)
    /\ (seg_stop_event /\ seg_pc # "not_started") ~> (seg_pc = "exited")

\* stop() was called while the sender was still waiting for session-ready.
C13_Witness ==
    /\ rt.stop_event
    /\ rt.thread = "alive"
    /\ rt.sender = "wait"

-----------------------------------------------------------------------------
(* C14 *)

\* run_call has left its event loops: normally or by an exception.
CallLoopEnded(m) == m.pc \in {"done", "failed"}

\* C14 as the specification states it: no failure in the bridge worker, the
\* I/O thread or the playback driver ends the call; run_call's event loop is
\* left only after the call has been reported disconnected.
C14_LoopEndsOnlyOnDisconnect == CallLoopEnded(md) => call.disconnected

\* C14, what the code does: run_call's event loop is left either after the
\* call has been reported disconnected, or by the exception of _write_wav in
\* _play_response, which is called outside the try block, for a response
\* taken from the pending queue while the media is active; no other failure
\* (connection refused, send failure, provider error event, player that
\* cannot be created) ends the loop.
C14_OnlyWriteFailureEndsCall ==
    [][(CallLoopEnded(md') /\ ~CallLoopEnded(md)) =>
          \/ call.disconnected
          \/ /\ md.pc = "get" /\ md'.pc = "failed"
             /\ pending_responses # <<>>
             /\ call.aud_med /\ ~call.io_stop]_vars

\* The event loop still runs, the call not disconnected, after a player could
\* not be created for a response taken from the queue.
C14_Witness ==
    /\ pipeline = "rt"
    /\ ~call.disconnected
    /\ md.pc = "events"
    /\ h_deq # <<>> /\ h_play = <<>>

-----------------------------------------------------------------------------
(* C15 *)

\* C15 as the specification states it: once a bridge's stop event is set,
\* send_pcm leaves the input queue unchanged, recv_pcm returns None (nothing
\* leaves the output queue), and the worker issues no further request to the
\* provider (the sender takes nothing from the input queue, the segmented
\* worker starts no transcription, chat or speech request).
C15_NoOpAfterStop ==
    [][/\ (rt.stop_event /\ h_last'.op = "rt_send_pcm") => rt'.input_q = rt.input_q
       /\ (rt.stop_event /\ rt'.stop_event) =>
             /\ Len(rt'.output_q) >= Len(rt.output_q)
             /\ Len(rt'.input_q) >= Len(rt.input_q)
       /\ (seg_stop_event /\ h_last'.op = "seg_send_pcm") => seg_input_q' = seg_input_q
       /\ (seg_stop_event /\ seg_stop_event') =>
             /\ Len(seg_output_q') >= Len(seg_output_q)
             /\ seg_pc' \in {"transcribe", "chat", "tts"} => seg_pc' = seg_pc]_vars

\* C15, what the code does: send_pcm and recv_pcm of both bridges never look
\* at the stop event, so after stop() send_pcm still enqueues whenever the
\* input queue has room and recv_pcm still hands out what the output queue
\* holds; of the workers, only the streaming sender is stopped by the event:
\* it takes nothing more from the input queue.
C15_StopGatesOnlySender ==
    [][/\ (rt.stop_event /\ h_last'.op = "rt_send_pcm") =>
             rt'.input_q = RtSendPcmQ(rt.input_q, h_last'.data)
       /\ (seg_stop_event /\ h_last'.op = "seg_send_pcm") =>
             seg_input_q' = SegSendPcmQ(seg_input_q, h_last'.data)
       /\ (rt.stop_event /\ rt'.stop_event) =>
             Len(rt'.input_q) >= Len(rt.input_q)]_vars

\* send_pcm has just enqueued a chunk on a bridge whose stop event was set.
C15_Witness ==
    \/ /\ rt.stop_event /\ h_last.op = "rt_send_pcm"
       /\ Len(rt.input_q) = h_last.qlen + 1
    \/ /\ seg_stop_event /\ h_last.op = "seg_send_pcm"
       /\ Len(seg_input_q) = h_last.qlen + 1

-----------------------------------------------------------------------------
(* C16 *)

BridgeWorkerAlive ==
    IF pipeline = "rt" THEN RtThreadAlive(rt)
    ELSE seg_pc \notin {"not_started", "exited"}
IoThreadAlive == io.pc \notin {"none", "done"}

-----------------------------------------------------------------------------
(* C17 *)

\* C17: (frame reader of both pipelines) after every read, of 0 to 10
\* frames' worth of bytes, the frames sliced off so far followed by the
\* leftover are exactly the bytes read from the capture file after its
\* header; every frame is file_rate * 2 / 50 bytes long; the leftover is
\* shorter than one frame; and a read that returns no bytes changes neither
\* the leftover nor the frames.
C17_FramesAndLeftoverAreTheStream ==
    [][/\ Flatten(io'.frames) \o io'.leftover = [k \in 1..io'.pos |-> StreamByte(k)]
       /\ \A k \in 1..Len(io'.frames) : Len(io'.frames[k]) = io'.frame_bytes_file
       /\ Len(io'.leftover) < io'.frame_bytes_file
       /\ io'.pos = io.pos => (io'.leftover = io.leftover /\ io'.frames = io.frames)
      ]_vars

\* Three reads have sliced off more frames than one read can hold and left
\* an incomplete frame.
C17_Witness ==
    /\ pipeline = "reader"
    /\ io.reads = 3
    /\ io.pos < 2 * io.frame_bytes_file * 10
    /\ Len(io.frames) > 10
    /\ io.leftover # <<>>

-----------------------------------------------------------------------------
(* C18 *)

\* a is b with some of its elements left out.
RECURSIVE IsSubseq(_, _)
IsSubseq(a, b) ==
    IF a = <<>> THEN TRUE
    ELSE IF b = <<>> THEN FALSE
    ELSE IF Head(a) = Head(b) THEN IsSubseq(Tail(a), Tail(b))
    ELSE IsSubseq(a, Tail(b))

\* C18: (streaming pipeline) every frame handed to send_pcm is the next
\* frame sliced off the capture file, resampled for the provider, and
\* whenever the sender has written a frame to the connection, the frames
\* written so far are, in order and each at most once, frames handed to
\* send_pcm: frames dropped at a full queue or lost in a failed send are
\* missing, none is out of order or repeated.
C18_SentIsSubsequenceOfSliced ==
    [][/\ io'.offered # io.offered =>
             /\ Len(io'.offered) = Len(io.offered) + 1
             /\ Len(io'.offered) <= Len(io.frames)
             /\ Last(io'.offered) = ToOpenAi(io.frames[Len(io'.offered)],
                                             io.file_sample_rate, call.sample_rate)
             /\ \A k \in 1..Len(io.offered) : io.offered[k] # Last(io'.offered)
       /\ rt'.ws_sent # rt.ws_sent =>
             IsSubseq([k \in 1..Len(rt'.ws_sent) |-> rt'.ws_sent[k].pcm], io'.offered)
      ]_vars

\* The sender has written three frames, the third of them not the third one
\* handed to send_pcm: a frame was dropped at the full queue.
C18_Witness ==
    /\ pipeline = "rt_capture"
    /\ Len(rt.ws_sent) = 3
    /\ Len(io.offered) >= 4
    /\ rt.ws_sent[3].pcm # io.offered[3]

-----------------------------------------------------------------------------
(* C19 *)

\* run_call has left its loops and the I/O thread has ended (or was never
\* started).
TeardownComplete == CallLoopEnded(md) /\ io.pc \in {"none", "done"}

\* C19 as the specification states it: every response the I/O thread has
\* enqueued has been taken from the pending queue by the main thread once the
\* teardown of the call is complete; none is left in the queue.
C19_NoneLeftAfterTeardown ==
    TeardownComplete => (pending_responses = <<>> /\ Len(h_deq) = Len(h_enq))

\* C19, what the code does: every response enqueued is either still in the
\* pending queue or has been taken from it exactly once (played, or dropped
\* by _cleanup_media), and none is taken twice; but the shutdown flush of the
\* I/O thread can put its final response after _cleanup_media, whose join
\* waits 3 s at most, has emptied the queue, and then nothing takes it.
C19_EachTakenAtMostOnce ==
    /\ Len(h_deq) + Len(pending_responses) = Len(h_enq)
    /\ \A j, k \in 1..Len(h_deq) : j # k => h_deq[j].index # h_deq[k].index
    /\ \A j \in 1..Len(h_deq) : \A k \in 1..Len(pending_responses) :
          h_deq[j].index # pending_responses[k].index

\* The call is torn down, a response has been played or dropped, and the
\* final response of the shutdown flush is still in the pending queue.
C19_Witness ==
    /\ TeardownComplete
    /\ call.disconnected
    /\ h_deq # <<>>
    /\ Len(pending_responses) = 1

-----------------------------------------------------------------------------
(* C20 *)

\* C20 as stated: when the remote party ends the call while the main thread
\* is in the wait loop of _play_response, the main thread's next step leaves
\* the wait loop.
C20_ByeEndsWaitAtNextPoll ==
    [][(md.pc = "wait" /\ call.remote_bye /\ md' # md) => md'.pc # "wait"]_vars

\* C20: (either application, threadCnt = 0) the stop signal is never set
\* while the main thread is in the wait loop of _play_response, whatever the
\* remote party does; the wait ends at the first 50 ms poll at or after the
\* deadline of duration plus grace, so less than one poll after it.
C20_WaitRunsToDeadline ==
    [][/\ md.pc = "wait" => ~call'.io_stop
       /\ (md.pc = "wait" /\ md'.pc # "wait")
             => LET deadline == PlayDeadlineMs(md.cur.pcm, call.sample_rate)
                IN  /\ md.elapsed >= deadline
                    /\ md.elapsed < deadline + PollMs]_vars

\* The remote party ended the call before the first sleep of the wait for a
\* response, and the wait has run past the deadline with the stop signal
\* unset and the call not yet seen as disconnected.
C20_Witness ==
    /\ md.pc = "wait"
    /\ call.remote_bye
    /\ ~call.io_stop
    /\ ~call.disconnected
    /\ h_play # <<>>
    /\ h_play[Len(h_play)] = [ev |-> "bye", index |-> md.cur.index, at |-> 0]
    /\ md.elapsed > PlayDeadlineMs(md.cur.pcm, call.sample_rate)

-----------------------------------------------------------------------------
(* C21 *)

\* C21 as stated: each of the five queues that carry audio between threads
\* holds at most as many items as the maxsize it was constructed with.
C21_EveryQueueWithinItsMaxsize ==
    /\ Len(seg_input_q) <= SegInputQMax
    /\ Len(seg_output_q) <= SegOutputQMax
    /\ Len(rt.input_q) <= RtInputQMax
    /\ Len(rt.output_q) <= RtOutputQMax
    /\ Len(pending_responses) <= PendingMaxsize

\* C21: (a call of either application) the input and output queues of both
\* bridges never hold more items than their maxsize; the pending-response
\* queue, constructed without one, is never full, so that its producer never
\* waits and never drops.
C21_BridgeQueuesWithinMaxsize ==
    /\ Len(seg_input_q) <= SegInputQMax
    /\ Len(seg_output_q) <= SegOutputQMax
    /\ Len(rt.input_q) <= RtInputQMax
    /\ Len(rt.output_q) <= RtOutputQMax
    /\ ~QueueFull(pending_responses, PendingMaxsize)

\* The streaming bridge's output queue is full, every provider event of the
\* behaviour has been received, and the main thread is still waiting for a
\* response to play out: the consumers are slower than the producers.
C21_Witness ==
    /\ pipeline = "rt"
    /\ Len(rt.output_q) = RtOutputQMax
    /\ h_events = MaxEvents
    /\ md.pc = "wait"

-----------------------------------------------------------------------------
(* C22 *)

\* The whole samples of a byte string.
NumSamples(pcm) == Len(pcm) \div 2

\* C22: (both _resample_pcm) for an input of N whole samples and any two of
\* the rates 8000, 16000 and 24000, the result has round(N * dst / src)
\* samples, give or take one.
C22_OutputLengthWithinOneSample ==
    (io.pc = "returned" /\ Len(io.pcm_data) % 2 = 0)
        => LET expected == RoundHalfEven(NumSamples(io.pcm_data) * io.dst_rate,
                                         io.src_rate)
               got      == NumSamples(io.result)
           IN  /\ Len(io.result) % 2 = 0
               /\ got - expected \in {-1, 0, 1}

\* Eleven samples have been taken from 24000 to 16000 Hz: 22/3 samples are
\* due, 7 is the rounded number and 7 were returned.
C22_Witness ==
    /\ io.pc = "returned"
    /\ Len(io.pcm_data) = 22
    /\ io.src_rate = 24000
    /\ io.dst_rate = 16000
    /\ NumSamples(io.result) = 7

-----------------------------------------------------------------------------
(* C23 *)

\* C23 as stated: with two different rates, an input that is empty, of odd
\* length or of fewer than two samples is returned as it came.
C23_DegenerateInputsPassThrough ==
    (/\ io.pc = "returned"
     /\ io.src_rate # io.dst_rate
     /\ \/ io.pcm_data = <<>>
        \/ Len(io.pcm_data) % 2 = 1
        \/ NumSamples(io.pcm_data) < 2)
        => io.result = io.pcm_data

\* C23: (both _resample_pcm) with two different rates, an input that is
\* empty, a single byte or of odd length is returned as it came; an input of
\* exactly one sample is returned as it came when the ratio dst / src is
\* below 2 and as int(dst / src) copies of that sample otherwise.
C23_MalformedInputsPassThrough ==
    (io.pc = "returned" /\ io.src_rate # io.dst_rate)
        => /\ (Len(io.pcm_data) < 2 \/ Len(io.pcm_data) % 2 = 1)
                => io.result = io.pcm_data
           /\ Len(io.pcm_data) = 2
                => LET copies == io.dst_rate \div io.src_rate
                   IN  IF copies < 2 THEN io.result = io.pcm_data
                       ELSE /\ NumSamples(io.result) = copies
                            /\ \A k \in 1..copies :
                                  SampleAt(io.result, k) = SampleAt(io.pcm_data, 1)

\* A single sample has been taken from 8000 to 24000 Hz by the function of
\* app_ai_realtime_call.py, which returned three samples.
C23_Witness ==
    /\ io.pc = "returned"
    /\ io.impl = "app"
    /\ Len(io.pcm_data) = 2
    /\ io.src_rate = 8000
    /\ io.dst_rate = 24000
    /\ Len(io.result) = 6

-----------------------------------------------------------------------------
(* C24 *)

\* The size of the frames the bridge of the pipeline works on: 20 ms at the
\* provider's rate (streaming) or at the call's rate (segmented).
TargetFrameBytes ==
    IF pipeline = "rt_capture" THEN (OpenAiSampleRate * 2) \div 50
    ELSE (call.sample_rate * 2) \div 50

\* C24 as stated: every frame handed to send_pcm has the target size,
\* whatever the rate of the capture file and of the call.
C24_EveryFrameHasTargetSize ==
    \A k \in 1..Len(io.offered) : Len(io.offered[k]) = TargetFrameBytes

\* C24: (both frame readers) when the 20 ms frame of the capture file is a
\* whole number of samples, every frame handed to send_pcm has the target
\* size.  When it has an odd number of bytes, the segmented pipeline hands
\* the frame on as it was sliced unless the file is at the call's rate, and
\* the streaming pipeline hands on a frame of the target size or one byte
\* short of it.
C24_WholeSampleFramesHaveTargetSize ==
    \A k \in 1..Len(io.offered) :
        IF io.frame_bytes_file % 2 = 0
        THEN Len(io.offered[k]) = TargetFrameBytes
        ELSE IF pipeline = "seg_capture"
        THEN io.offered[k] = io.frames[k]
        ELSE Len(io.offered[k]) \in {TargetFrameBytes, TargetFrameBytes - 1}

\* The segmented pipeline's reader, on a file at 16000 Hz in a call at 8000
\* Hz, has read two frames and a byte and then a frame, and has handed three
\* frames of 320 bytes to send_pcm; one byte is left over.
C24_Witness ==
    /\ pipeline = "seg_capture"
    /\ io.file_sample_rate = 16000
    /\ call.sample_rate = 8000
    /\ Len(io.offered) = 3
    /\ \A k \in 1..3 : Len(io.offered[k]) = 320
    /\ Len(io.leftover) = 1

-----------------------------------------------------------------------------
(* C25 *)

\* A step of the streaming I/O thread that puts a response on the pending
\* queue.
RtEnqueues == pipeline = "rt" /\ Len(h_enq') = Len(h_enq) + 1

\* C25: (streaming pipeline) whenever the I/O thread puts a response on the
\* pending queue, its accumulation buffer is not empty, the response put is
\* not empty, and the response-done flag is set, or the stop signal is set,
\* or the drain timeout has passed since the last chunk; the final flush
\* puts its response with the stop signal set.
C25_QueuedOnlyOnTrigger ==
    [][RtEnqueues =>
          /\ io.accumulated # <<>>
          /\ Last(pending_responses').pcm # <<>>
          /\ IF io.pc = "decide"
             THEN rt.response_done \/ call.io_stop \/ io'.timed_out
             ELSE io.pc = "flush_put" /\ call.io_stop]_vars

\* Two responses have been queued by the main loop; the second has just
\* been queued with response-done set, the drain timeout not passed and the
\* stop signal unset.
C25_Witness ==
    /\ pipeline = "rt"
    /\ io.pc = "clear"
    /\ Len(h_enq) = 2
    /\ io.response_complete
    /\ ~io.timed_out
    /\ ~call.io_stop

-----------------------------------------------------------------------------
(* C26 *)

\* The loops of the I/O thread have made no more passes than their limits.
IoLoopsWithinLimits ==
    /\ io.drain_after_stop_count <= DrainAfterStopMax
    /\ io.pc = "drain" => io.drain_iterations <= DrainIterationsMax
    /\ io.pc = "flush_poll" => io.i <= FlushPollMax
    /\ io.pc = "flush_wait" => io.i <= FlushWaitMax

\* A pass of the final flush's wait loop that finds the output queue empty
\* and, with this poll counted, either response-done set and enough empty
\* polls in a row, or the bridge's thread seen dead, enough passes and
\* enough empty polls in a row.
WaitMayEndEarly ==
    /\ io.pc = "flush_wait"
    /\ io.i < FlushWaitMax
    /\ rt.output_q = <<>>
    /\ \/ rt.response_done /\ io.consecutive_empty + 1 >= FlushDoneEmpties
       \/ /\ io.i >= FlushDeadAfter
          /\ ~io.bridge_thread_running
          /\ io.consecutive_empty + 1 >= FlushDeadEmpties

-----------------------------------------------------------------------------
(* C27 *)

\* Requests of the current segment that have been issued and have not
\* returned yet.
OutstandingRequests ==
    Len(h_cur.calls) - (Len(h_cur.stt) + Len(h_cur.chat) + Len(h_cur.tts))

\* The worker is inside _process_speech: waiting for a request or handing
\* the synthesized chunks to the output queue.
InProcessSpeech == seg_pc \in {"transcribe", "chat", "tts", "enqueue"}

\* C27: (segmented bridge) at most one segment is processed at a time: at
\* most one request is outstanding, and one is outstanding exactly while the
\* worker waits for it; the processing flag is true exactly while the
\* worker is inside _process_speech for a segment that is not finished;
\* _process_speech is entered, and a request issued, only from a state
\* where the flag is false or the previous request has returned.
C27_OneSegmentAtATime ==
    /\ [](/\ OutstandingRequests \in {0, 1}
          /\ OutstandingRequests = 1 <=> seg_pc \in {"transcribe", "chat", "tts"}
          /\ seg_processing <=> InProcessSpeech
          /\ seg_processing <=> ~h_cur.done)
    /\ [][/\ (~InProcessSpeech /\ InProcessSpeech') =>
                (~seg_processing /\ seg_processing' /\ seg_pc' = "transcribe")
          /\ Len(h_cur'.calls) > Len(h_cur.calls) /\ h_cur'.msgs0 = h_cur.msgs0
                /\ InProcessSpeech =>
                (OutstandingRequests = 1 /\ OutstandingRequests' = 1)]_vars

\* A second segment is being processed after an earlier one got its
\* answer: its chat request is outstanding with the flag set.
C27_Witness ==
    /\ Len(h_log) >= 2
    /\ seg_processing
    /\ seg_pc = "chat"
    /\ OutstandingRequests = 1
    /\ Len(seg_messages) >= 4

-----------------------------------------------------------------------------
(* C28 *)

\* Sequence s is a prefix of sequence t.
IsPrefixOf(s, t) == Len(s) <= Len(t) /\ SubSeq(t, 1, Len(s)) = s

\* The request whose outcome h_cur records in seen returned a text that is
\* not empty once stripped, and content is that text.
ReturnedText(seen, content) ==
    /\ seen # <<>>
    /\ seen[1].kind = "text"
    /\ seen[1].text # <<>>
    /\ content = seen[1].text

\* C28: (segmented bridge) the conversation is append-only: every step
\* leaves it a prefix of what it becomes, so the conversation of an earlier
\* moment is a prefix of that of any later one; its first turn is always the
\* system turn; a step adds at most one turn: a user turn, by the step in
\* which the transcription request returns non-empty text, or an assistant
\* turn, by the step in which the reasoning request returns non-empty text.
C28_HistoryAppendOnly ==
    /\ [](seg_messages # <<>> /\ seg_messages[1] = Turn("system", SystemMessage))
    /\ [][/\ IsPrefixOf(seg_messages, seg_messages')
          /\ seg_messages' # seg_messages =>
                /\ Len(seg_messages') = Len(seg_messages) + 1
                /\ LET t == Last(seg_messages')
                   IN  \/ /\ t.role = "user"
                          /\ seg_pc = "transcribe"
                          /\ ReturnedText(h_cur'.stt, t.content)
                       \/ /\ t.role = "assistant"
                          /\ seg_pc = "chat"
                          /\ ReturnedText(h_cur'.chat, t.content)
                          /\ seg_messages[Len(seg_messages)].role = "user"]_vars

\* The conversation holds the system turn and two full exchanges, the
\* second one just completed by the assistant turn of the second segment.
C28_Witness ==
    /\ Len(seg_messages) = 5
    /\ seg_messages[1].role = "system"
    /\ seg_messages[4].role = "user"
    /\ seg_messages[5].role = "assistant"
    /\ seg_pc = "tts"
    /\ Len(h_log) >= 2
    /\ ReturnedText(h_cur.chat, seg_messages[5].content)

-----------------------------------------------------------------------------
(* C29 *)

\* The step is the receiver handling a session.updated event.
ReceivesConfirmation ==
    \E event \in ProviderEvents :
        event.type = "session.updated" /\ RtReceive(event)

\* C29: (streaming bridge) session-ready is set only by the step in which
\* the receiver handles a session.updated event, and cleared only by a
\* start() that starts a thread; the thread of a start() begins with
\* session-ready clear, so session-ready set means that the receiver of the
\* thread last started has existed and has handled a confirmation.  A
\* start() made while the thread is alive is the only one that leaves
\* session-ready set: it changes nothing.
C29_ReadyOnlyOnConfirmation ==
    /\ [](/\ rt.session_ready =>
                rt.thread \in {"alive", "dead"} /\ rt.receiver \in {"recv", "done"}
          /\ RtStartBridge(rt).session_ready =>
                RtThreadAlive(rt) /\ RtStartBridge(rt) = rt)
    /\ [][/\ (~rt.session_ready /\ rt'.session_ready) => ReceivesConfirmation
          /\ (rt.session_ready /\ ~rt'.session_ready) =>
                ~RtThreadAlive(rt) /\ rt' = RtStartBridge(rt)
          /\ (rt.thread # "connecting" /\ rt'.thread = "connecting") =>
                ~rt'.session_ready]_vars

\* The sender's wait has ended, the receiver has handled the confirmation
\* and, after it, the end of a response while the caller's audio waits in
\* the input queue.
C29_Witness ==
    /\ pipeline = "bridge_rt"
    /\ rt.session_ready
    /\ rt.thread = "alive"
    /\ rt.sender = "loop"
    /\ rt.receiver = "recv"
    /\ rt.response_done
    /\ rt.input_q # <<>>

-----------------------------------------------------------------------------
(* C30 *)

\* C30: (streaming bridge) a chunk leaves the input queue, to be sent as an
\* input_audio_buffer.append message, only in a step of the sender's loop,
\* which the sender enters when its wait for session-ready has returned;
\* the sender leaves the wait only for its loop, having sent nothing; and
\* the wait always ends, whether or not the provider confirms.
C30_SenderWaitsThenSends ==
    /\ [][/\ Len(rt'.input_q) < Len(rt.input_q) =>
                rt.sender = "loop" /\ rt'.input_q = Tail(rt.input_q)
          /\ (rt.sender = "wait" /\ rt'.sender # "wait") =>
                rt'.sender = "loop" /\ rt'.input_q = rt.input_q]_vars
    /\ (rt.sender = "wait") ~> (rt.sender # "wait")

\* The provider has not confirmed the session; the sender's wait has ended
\* all the same and the sender is in its loop, with a chunk of the caller's
\* audio to send.
C30_Witness ==
    /\ pipeline = "bridge_rt"
    /\ rt.thread = "alive"
    /\ rt.sender = "loop"
    /\ rt.receiver = "recv"
    /\ ~rt.session_ready
    /\ ~rt.stop_event
    /\ rt.input_q # <<>>

-----------------------------------------------------------------------------
(* C31 *)

\* The events that end a response.
CompletionTypes == {"response.done", "response.output_audio.done"}

\* response-in-progress as the events of log leave it: whether the last of
\* its response.created and completion events is a response.created.
RECURSIVE InProgressAfter(_)
InProgressAfter(log) ==
    IF log = <<>> THEN FALSE
    ELSE IF Last(log).type = "response.created" THEN TRUE
    ELSE IF Last(log).type \in CompletionTypes THEN FALSE
    ELSE InProgressAfter(SubSeq(log, 1, Len(log) - 1))

\* The step handles one provider event, which the log records last.
HandlesEvent == Len(rt'.log) = Len(rt.log) + 1

\* C31: (streaming bridge) a response.create message is sent only by the
\* receiver handling a speech-stopped event, only with auto-response
\* enabled, and only when response-in-progress is false at that moment:
\* false in the state the event is handled in, which is what the events
\* handled before it since start() leave.
C31_CreateOnlyOnSpeechStopped ==
    /\ [](\A k \in 1..Len(rt.log) :
             rt.log[k].create =>
                /\ rt.log[k].type = "input_audio_buffer.speech_stopped"
                /\ rt.auto_response
                /\ ~InProgressAfter(SubSeq(rt.log, 1, k - 1)))
    /\ [][(HandlesEvent /\ Last(rt'.log).create) =>
             /\ rt.receiver = "recv"
             /\ ~rt.response_in_progress
             /\ rt' = [rt EXCEPT !.log = rt'.log]]_vars

\* A speech-stopped event sent a response.create, the response was created,
\* and a second speech-stopped event, handled with the response in
\* progress, sent none.
C31_Witness ==
    /\ Len(rt.log) = 3
    /\ rt.log[1] = [type |-> "input_audio_buffer.speech_stopped", create |-> TRUE]
    /\ rt.log[2].type = "response.created"
    /\ rt.log[3] = [type |-> "input_audio_buffer.speech_stopped", create |-> FALSE]
    /\ rt.response_in_progress

-----------------------------------------------------------------------------
(* C32 *)

-----------------------------------------------------------------------------
(* C33 *)

\* C33: (streaming receiver) handling a provider error event, or a message
\* that cannot be parsed, changes nothing of the bridge: not session-ready,
\* response-in-progress, response-done or either queue, and not its tasks,
\* so the receiver is still receiving and handles the events that follow.
C33_ErrorChangesNothing ==
    [][(HandlesEvent /\ Last(rt'.log).type \in {"error", "unparsable"}) =>
          /\ rt' = [rt EXCEPT !.log = rt'.log]
          /\ rt'.receiver = "recv"
          /\ rt'.thread = "alive"]_vars

\* After a response was created and a frame waits in the input queue, an
\* error event and an unparsable message were handled; the receiver is still
\* receiving, with everything the earlier events set still set.
C33_Witness ==
    /\ Len(rt.log) = 3
    /\ rt.log[1].type = "response.created"
    /\ rt.log[2].type = "error"
    /\ rt.log[3].type = "unparsable"
    /\ rt.response_in_progress
    /\ rt.input_q # <<>>
    /\ rt.receiver = "recv"
    /\ rt.thread = "alive"

-----------------------------------------------------------------------------
(* C37 *)

\* Some event of log strictly between positions j and k has a type in types.
Between(log, j, k, types) == \E i \in (j + 1)..(k - 1) : log[i].type \in types

\* C37 (as stated): (streaming bridge) at most one response request is
\* outstanding: between two response.create messages a completion event
\* (response.done or response.output_audio.done) has been received,
\* whatever speech-stopped events arrive.
C37_OneRequestOutstanding ==
    \A j \in 1..Len(rt.log) : \A k \in (j + 1)..Len(rt.log) :
        (rt.log[j].create /\ rt.log[k].create) =>
            Between(rt.log, j, k, CompletionTypes)

\* C37 (what the code does): a second response.create is held back only
\* from the response.created event on: when two response.create messages
\* have no completion event between them, no response.created event was
\* handled between them either.
C37_HeldBackOnlyAfterCreated ==
    \A j \in 1..Len(rt.log) : \A k \in (j + 1)..Len(rt.log) :
        (rt.log[j].create /\ rt.log[k].create
            /\ ~Between(rt.log, j, k, CompletionTypes)) =>
                ~Between(rt.log, j, k, {"response.created"})

\* Two speech-stopped events were handled before the provider's
\* response.created event, and each sent a response.create.
C37_Witness ==
    /\ Len(rt.log) = 3
    /\ rt.log[1] = [type |-> "input_audio_buffer.speech_stopped", create |-> TRUE]
    /\ rt.log[2] = [type |-> "input_audio_buffer.speech_stopped", create |-> TRUE]
    /\ rt.log[3].type = "response.created"
    /\ rt.response_in_progress

-----------------------------------------------------------------------------
(* C35 *)

\* C35 (as stated): (streaming bridge) while the sender waits for
\* session-ready, the receiver, which has been created on the same event
\* loop, can handle a session.updated event, and _main can see the stop
\* signal.
C35_ReceiverRunsDuringWait ==
    (rt.sender = "wait" /\ rt.receiver = "recv") =>
        /\ ENABLED ReceivesConfirmation
        /\ rt.stop_event => ENABLED RtMainExit

\* C35 (what the code does): the sender's wait is a blocking call on the
\* event loop's thread: while it lasts no provider event is handled, so
\* session-ready stays clear and the wait ends on its timeout, and the
\* thread does not end even with the stop signal set.
C35_WaitBlocksEventLoop ==
    /\ [](rt.sender = "wait" => (~rt.session_ready /\ rt.log = <<>>))
    /\ [][rt.sender = "wait" =>
             /\ rt'.log = rt.log
             /\ rt'.session_ready = rt.session_ready
             /\ rt'.thread = rt.thread
             /\ rt'.receiver = rt.receiver]_vars

\* The bridge was started with a frame in its input queue and stopped
\* while the sender is in its wait: the thread is alive, the receiver
\* exists and has handled nothing.
C35_Witness ==
    /\ pipeline = "bridge_recv"
    /\ rt.sender = "wait"
    /\ rt.receiver = "recv"
    /\ rt.thread = "alive"
    /\ rt.stop_event
    /\ rt.input_q # <<>>
    /\ ~rt.session_ready

-----------------------------------------------------------------------------
(* C34 *)

\* _resample_pcm has returned from a call with two different rates and an
\* input of at least two whole samples.
ResampledWholeSamples ==
    /\ io.pc = "returned"
    /\ io.src_rate # io.dst_rate
    /\ Len(io.pcm_data) % 2 = 0
    /\ NumSamples(io.pcm_data) >= 2

\* C34 (as stated): (both _resample_pcm) for two different rates of 8000,
\* 16000 and 24000 and an input of N >= 2 samples, the result has exactly
\* round(N * dst / src) samples.
C34_ExactlyRoundedLength ==
    ResampledWholeSamples =>
        /\ Len(io.result) % 2 = 0
        /\ NumSamples(io.result) =
              RoundHalfEven(NumSamples(io.pcm_data) * io.dst_rate, io.src_rate)

\* C34 (what the code does): the result has int(N * dst / src) samples: the
\* quotient is truncated, not rounded; when it is 0 the input is returned
\* as it came.
C34_TruncatedLength ==
    ResampledWholeSamples =>
        LET out_len == TruncDiv(NumSamples(io.pcm_data) * io.dst_rate, io.src_rate)
        IN  /\ Len(io.result) % 2 = 0
            /\ IF out_len = 0 THEN io.result = io.pcm_data
                              ELSE NumSamples(io.result) = out_len

\* Four samples have been taken from 24000 to 16000 Hz by the method of
\* WhisperAssistantBridge: 8/3 samples are due, 3 is the rounded number and
\* 2 were returned.
C34_Witness ==
    /\ io.pc = "returned"
    /\ io.impl = "seg"
    /\ Len(io.pcm_data) = 8
    /\ io.src_rate = 24000
    /\ io.dst_rate = 16000
    /\ NumSamples(io.result) = 2
    /\ RoundHalfEven(4 * 16000, 24000) = 3

-----------------------------------------------------------------------------
(* C39 *)

\* Total duration of the silent chunks that end a buffer.
RECURSIVE TrailingSilenceMs(_)
TrailingSilenceMs(audio) ==
    IF audio = <<>> \/ ~SilentFrame(Last(audio)) THEN 0
    ELSE Last(audio).ms + TrailingSilenceMs(SubSeq(audio, 1, Len(audio) - 1))

\* C39: (segmented bridge) with silence_duration_ms >= 300, every segment
\* signalled ends with at least silence_duration_ms of silence after its
\* speech and is longer than the 300 ms of the minimum-length check; the
\* step that signals it starts the transcription request.  So a segment for
\* which no request was made exists only with silence_duration_ms < 300.
C39_LongSilencePassesMinLength ==
    /\ [](seg_silence_duration_ms >= MinSegmentMs =>
            /\ \A k \in 1..Len(h_log) :
                  /\ TrailingSilenceMs(h_log[k].audio) >= seg_silence_duration_ms
                  /\ SumMs(h_log[k].audio) > TrailingSilenceMs(h_log[k].audio)
                  /\ LongEnough(h_log[k].audio, seg_sample_rate)
            /\ h_log # <<>> => h_cur.calls # <<>>)
    /\ [][(Len(h_log') > Len(h_log) /\ seg_silence_duration_ms >= MinSegmentMs) =>
             /\ seg_pc' = "transcribe"
             /\ h_cur'.calls = <<"stt">>]_vars

\* With silence_duration_ms at 300 or more, one chunk above the threshold,
\* of the shorter duration, was followed by silent chunks; the segment was
\* signalled and its transcription request is outstanding.
C39_Witness ==
    /\ seg_silence_duration_ms >= MinSegmentMs
    /\ Len(h_log) = 1
    /\ ~SilentFrame(h_log[1].audio[1])
    /\ h_log[1].audio[1].ms = FrameMs
    /\ TrailingSilenceMs(h_log[1].audio) = SumMs(h_log[1].audio) - FrameMs
    /\ seg_pc = "transcribe"

-----------------------------------------------------------------------------
(* C38 *)

\* C38 (as stated): (segmented bridge) after the system turn the
\* conversation alternates user, assistant, user, assistant, ...
C38_StrictAlternation ==
    \A k \in 2..Len(seg_messages) :
        seg_messages[k].role = IF k % 2 = 0 THEN "user" ELSE "assistant"

\* C38 (what the code does): after the system turn come user and assistant
\* turns only; every assistant turn is immediately preceded by a user
\* turn; a user turn that follows another user turn follows one whose
\* reasoning request returned nothing or failed, which is the current
\* segment's when the turn is the last but one and the request has returned.
C38_AssistantFollowsUser ==
    /\ seg_messages[1].role = "system"
    /\ \A k \in 2..Len(seg_messages) :
          /\ seg_messages[k].role \in {"user", "assistant"}
          /\ seg_messages[k].role = "assistant" => seg_messages[k - 1].role = "user"
    /\ (/\ h_cur.chat # <<>>
        /\ Len(seg_messages) = Len(h_cur.msgs0) + 1
        /\ Last(seg_messages).role = "user") => ChatBlank

\* The reasoning request of a first segment failed and the transcription of
\* a second segment returned text: the conversation is the system turn and
\* two user turns, with the second reasoning request outstanding.
C38_Witness ==
    /\ Len(seg_messages) = 3
    /\ seg_messages[2].role = "user"
    /\ seg_messages[3].role = "user"
    /\ Len(h_log) >= 2
    /\ seg_pc = "chat"

-----------------------------------------------------------------------------
(* C36 *)

\* The I/O thread is in its main loop with nothing accumulated and no
\* hand-off to finish, and the bridge's output queue is empty: no audio of
\* any response waits to be handed to the main thread.
NothingToHandOff ==
    /\ pipeline = "rt"
    /\ io.pc \in {"loop", "top", "capture", "drain", "decide"}
    /\ io.accumulated = <<>>
    /\ rt.output_q = <<>>

\* C36 (as stated): (streaming pipeline) the audio of a new response starts
\* accumulating with the response-done signal clear: when the provider's
\* audio arrives with nothing left to hand off, the signal is not still set
\* from an earlier completion event (nothing clears it before that audio is
\* accumulated).
C36_DoneClearWhenNewAudioArrives ==
    [][(NothingToHandOff /\ rt'.output_q # <<>>) => ~rt.response_done]_vars

\* C36 (what the code does): the response-done signal is cleared only by
\* start() and by the I/O thread's step that follows a hand-off, so a
\* completion event handled with nothing accumulated leaves it set, and it
\* stays set for as long as nothing is accumulated.
C36_DoneClearedOnlyAfterHandOff ==
    [][/\ (pipeline = "rt" /\ rt.response_done /\ ~rt'.response_done) =>
             \/ io.pc = "clear" /\ io'.accumulated = <<>>
             \/ rt'.thread = "connecting"
       /\ (NothingToHandOff /\ rt.response_done /\ rt'.thread = rt.thread) =>
             rt'.response_done]_vars

\* Response 0 was handed off and the signal cleared; a completion event
\* handled after that has set the signal again, with nothing accumulated
\* and the output queue empty, and the call goes on.
C36_Witness ==
    /\ NothingToHandOff
    /\ h_enq = <<0>>
    /\ rt.response_done
    /\ rt.thread = "alive"
    /\ rt.receiver = "recv"
    /\ ~call.io_stop

-----------------------------------------------------------------------------
(* C40 *)

\* C40: once the I/O stop signal of a call is set it stays set, and the main
\* thread attaches no response player again: it is not in
\* process_pending_responses or _play_response, no player is attached, and
\* from then on nothing is recorded as attached and no response is taken
\* from the pending queue to be played, whatever is still queued or is
\* enqueued later by the I/O thread's final flush.
C40_NoPlaybackAfterStop ==
    /\ [](call.io_stop =>
            /\ md.pc \in {"cleanup", "done", "failed"}
            /\ md.attached = {})
    /\ [][call.io_stop =>
             /\ call'.io_stop
             /\ md'.attached = {}
             /\ Len(h_play') > Len(h_play) => Last(h_play').ev # "attach"
             /\ Len(h_deq') > Len(h_deq) =>
                   \A k \in (Len(h_deq) + 1)..Len(h_deq') : h_deq'[k].by = "drop"]_vars

\* The call has been disconnected and run_call's loop has ended after a
\* response was played; the I/O thread has ended too, and the response its
\* final flush enqueued after _cleanup_media's drain is still queued.
C40_Witness ==
    /\ pipeline = "rt"
    /\ call.io_stop
    /\ md.pc = "done"
    /\ io.pc = "done"
    /\ pending_responses # <<>>
    /\ h_play # <<>>

=============================================================================
